---- MODULE Spec2Model ----
(***************************************************************************)
(* A model of the request handlers and of the submission store of the     *)
(* book-generation site:                                                   *)
(*   - the outline handler        supabase/functions/generate-toc          *)
(*   - the chapter-content handler supabase/functions/generate-content     *)
(*   - the admin handler           supabase/functions/admin-submissions    *)
(*   - the cover handler           unnamed/part_001                        *)
(*   - the email handler           unnamed/part_000                        *)
(*   - the form_submissions table, its policies and triggers, and the      *)
(*     migrations that make them   supabase/migrations                     *)
(*   - the book wizard: its steps, its outline, chapter and PDF requests   *)
(*                                 src/components/AIBookGenerator.tsx      *)
(*                                                                         *)
(* Strings are sequences of one-character strings.  A literal word of a   *)
(* template (a maximal run of non-whitespace characters of the source     *)
(* text) is written as the single character "w" and a run of literal      *)
(* whitespace as one " ": what the handlers compute from a text (its       *)
(* split on whitespace, its emptiness, its prefix) depends only on where   *)
(* the whitespace is.  Strings that come with a request keep their         *)
(* characters.                                                             *)
(*                                                                         *)
(* An optional JSON property or environment variable is <<>> when it is    *)
(* undefined and <<v>> when it has the value v.                            *)
(***************************************************************************)
EXTENDS Integers, Sequences, FiniteSets

VARIABLES
  env,          \* the deployment's environment variables (Deno.env)
  req,          \* the request of the last invocation
  calls,        \* the upstream fetches made by the last invocation, in order
  resp,         \* the response of the last invocation
  submissions,  \* the form_submissions table: id -> row
  now,          \* the database clock, now()
  dbOps,        \* the database statements issued by the last invocation
  notices,      \* what the triggers of the last statement queued or raised
  users,        \* the ids of the rows of auth.users and of users
  schema,       \* the tables, their row level security and its policies
  wizard        \* the state of the book wizard (AIBookGenerator) in a browser

vars ==
  <<env, req, calls, resp, submissions, now, dbOps, notices, users, schema,
    wizard>>

(***************************************************************************)
(* Bounds of the model.                                                    *)
(***************************************************************************)
MaxPages == 7
MaxSections == 5
MaxMixed == 2
MaxToc == 3
MaxSubs == 1
MaxTime == 1

(***************************************************************************)
(* JavaScript values.                                                      *)
(***************************************************************************)
Undefined == <<>>

Some(v) == <<v>>

IsDefined(o) == o # Undefined

\* !x for an optional string: undefined and "" are falsy
FalsyStr(o) == o = Undefined \/ o[1] = <<>>

\* !x for an optional number: undefined and 0 are falsy
FalsyNum(o) == o = Undefined \/ o[1] = 0

\* a destructuring default (x = d): applies to undefined only
OrDefault(o, d) == IF o = Undefined THEN d ELSE o[1]

Min(a, b) == IF a < b THEN a ELSE b

Whitespace == {" ", "\n"}

Digits == <<"0", "1", "2", "3", "4", "5", "6", "7", "8", "9">>

\* Number.prototype.toString for a non-negative integer
RECURSIVE ToString(_)
ToString(n) ==
  IF n < 10 THEN <<Digits[n + 1]>>
  ELSE ToString(n \div 10) \o <<Digits[(n % 10) + 1]>>

\* String.prototype.substring(0, n)
Substring(s, n) == SubSeq(s, 1, Min(n, Len(s)))

\* n literal words of a template, one whitespace run between two words
Words(n) == [i \in 1..(2 * n - 1) |-> IF i % 2 = 1 THEN "w" ELSE " "]

Sp == <<" ">>

\* Array.prototype.join over the strings f[1..n] with separator sep
RECURSIVE Join(_, _)
Join(parts, sep) ==
  IF Len(parts) = 0 THEN <<>>
  ELSE IF Len(parts) = 1 THEN parts[1]
  ELSE parts[1] \o sep \o Join(Tail(parts), sep)

(***************************************************************************)
(* Responses.                                                              *)
(***************************************************************************)
NoBody == [kind |-> "none"]

ErrorResponse(status, error) ==
  [status |-> status, body |-> [kind |-> "error", error |-> error]]

OptionsResponse == [status |-> 200, body |-> NoBody]

(***************************************************************************)
(* The outline handler, generate-toc/index.ts.                             *)
(***************************************************************************)
\* the default of `style`: 'practical'
StylePractical == <<"p">>

SummaryPrefixLocal == 100

SummaryPrefixHAL9 == 150

\* the string literals of generateLocalTOC
S_Introduction == <<"I", "n", "t", "r", "o", "d", "u", "c", "t", "i", "o", "n">>

S_Main_Content == <<"M", "a", "i", "n", " ", "C", "o", "n", "t", "e", "n", "t">>

S_Conclusion == <<"C", "o", "n", "c", "l", "u", "s", "i", "o", "n">>

S_Overview == <<"O", "v", "e", "r", "v", "i", "e", "w">>

S_Background == <<"B", "a", "c", "k", "g", "r", "o", "u", "n", "d">>

S_Objectives == <<"O", "b", "j", "e", "c", "t", "i", "v", "e", "s">>

S_Core_concepts == <<"C", "o", "r", "e", " ", "c", "o", "n", "c", "e", "p", "t", "s">>

S_Key_principles == <<"K", "e", "y", " ", "p", "r", "i", "n", "c", "i", "p", "l", "e", "s">>

S_Examples == <<"E", "x", "a", "m", "p", "l", "e", "s">>

S_Summary == <<"S", "u", "m", "m", "a", "r", "y">>

S_Key_takeaways == <<"K", "e", "y", " ", "t", "a", "k", "e", "a", "w", "a", "y", "s">>

S_Next_steps == <<"N", "e", "x", "t", " ", "s", "t", "e", "p", "s">>

generateLocalTOC(request) ==
  LET basicTOC ==
        << [section_name |-> S_Introduction,
            section_ideas |-> <<S_Overview, S_Background, S_Objectives>>,
            estimated_pages |-> <<"1", "0", "-", "1", "2">>],
           [section_name |-> S_Main_Content,
            section_ideas |-> <<S_Core_concepts, S_Key_principles, S_Examples>>,
            estimated_pages |-> <<"4", "0", "-", "5", "0">>],
           [section_name |-> S_Conclusion,
            section_ideas |-> <<S_Summary, S_Key_takeaways, S_Next_steps>>,
            estimated_pages |-> <<"1", "0", "-", "1", "5">>] >>
      bookSummary ==
        Words(2) \o Sp \o <<"w">> \o request.title[1] \o <<"w">> \o Sp
          \o Words(1) \o Sp \o request.author[1] \o Sp \o Words(1) \o Sp
          \o Substring(request.book_idea[1], SummaryPrefixLocal) \o <<"w">>
  IN  IF request.num_pages = Undefined
      THEN [threw |-> TRUE, value |-> NoBody]      \* num_pages.toString()
      ELSE [threw |-> FALSE,
            value |-> [kind |-> "toc",
                       toc |-> basicTOC,
                       total_estimated_pages |-> ToString(request.num_pages[1]),
                       book_summary |-> bookSummary]]

\* the upstream outline endpoint, .../proxy/toc
TocCall(request) == [endpoint |-> "toc", body |-> [book_idea |-> request.book_idea[1]]]

\* a mapping that hands the remainder to the last sections
TocSection_RemainderToLast(item, i, n, num_pages) ==
  LET pagesPerChapter == num_pages \div n
      remainderPages == num_pages % n
      extraPage == IF i - 1 >= n - remainderPages THEN 1 ELSE 0
      chapterPages == pagesPerChapter + extraPage
  IN  [section_name |->
         IF FalsyStr(item.section_name)
         THEN <<"C", "h", "a", "p", "t", "e", "r", " ">> \o ToString(i)
         ELSE item.section_name[1],
       section_ideas |-> OrDefault(item.section_ideas, <<>>),
       estimated_pages |->
         IF chapterPages > 0
         THEN ToString(chapterPages) \o <<"-">> \o ToString(chapterPages + 2)
         ELSE <<"1", "-", "2">>]

\* a mapping that hands the remainder to no section
TocSection_NoRemainder(item, i, n, num_pages) ==
  LET chapterPages == num_pages \div n
  IN  [section_name |->
         IF FalsyStr(item.section_name)
         THEN <<"C", "h", "a", "p", "t", "e", "r", " ">> \o ToString(i)
         ELSE item.section_name[1],
       section_ideas |-> OrDefault(item.section_ideas, <<>>),
       estimated_pages |->
         IF chapterPages > 0
         THEN ToString(chapterPages) \o <<"-">> \o ToString(chapterPages + 2)
         ELSE <<"1", "-", "2">>]

\* hal9Data.map(...) of generateTOC: the section made of item i (counted from 1)
TocSection(item, i, n, num_pages) ==
  LET pagesPerChapter == num_pages \div n
      remainderPages == num_pages % n
      extraPage == IF i - 1 < remainderPages THEN 1 ELSE 0
      chapterPages == pagesPerChapter + extraPage
  IN  [section_name |->
         IF FalsyStr(item.section_name)
         THEN <<"C", "h", "a", "p", "t", "e", "r", " ">> \o ToString(i)
         ELSE item.section_name[1],
       section_ideas |-> OrDefault(item.section_ideas, <<>>),
       estimated_pages |->
         IF chapterPages > 0
         THEN ToString(chapterPages) \o <<"-">> \o ToString(chapterPages + 2)
         ELSE <<"1", "-", "2">>]

\* a conversion that keeps at most chapter_count (default 5) sections of the
\* upstream array
TocFromArray_ChapterCount(request, items) ==
  LET n == Min(Len(items), OrDefault(request.chapter_count, 5))
      style == OrDefault(request.style, StylePractical)
      book_idea == request.book_idea[1]
      tocSections ==
        [i \in 1..n |-> TocSection(items[i], i, n, request.num_pages[1])]
      bookSummary ==
        Words(1) \o Sp \o style \o Sp \o Words(1) \o Sp
          \o <<"w">> \o request.title[1] \o <<"w">> \o Sp \o Words(1) \o Sp
          \o request.author[1] \o Sp \o Words(1) \o Sp \o ToString(n) \o Sp
          \o Words(3) \o Sp \o Substring(book_idea, SummaryPrefixHAL9)
          \o (IF Len(book_idea) > SummaryPrefixHAL9 THEN <<"w">> ELSE <<>>)
  IN  IF \E i \in 1..Len(items) : items[i].null
      THEN [threw |-> TRUE, value |-> NoBody]
      ELSE IF request.num_pages = Undefined
      THEN [threw |-> TRUE, value |-> NoBody]
      ELSE [threw |-> FALSE,
            value |-> [kind |-> "toc",
                       toc |-> tocSections,
                       total_estimated_pages |-> ToString(request.num_pages[1]),
                       book_summary |-> bookSummary]]

\* the part of generateTOC after `const hal9Data = await hal9Response.json()`
\* found an array; threw is TRUE when an exception reaches the catch block
TocFromArray(request, items) ==
  LET n == Len(items)
      style == OrDefault(request.style, StylePractical)
      book_idea == request.book_idea[1]
      tocSections ==
        [i \in 1..n |-> TocSection(items[i], i, n, request.num_pages[1])]
      bookSummary ==
        Words(1) \o Sp \o style \o Sp \o Words(1) \o Sp
          \o <<"w">> \o request.title[1] \o <<"w">> \o Sp \o Words(1) \o Sp
          \o request.author[1] \o Sp \o Words(1) \o Sp \o ToString(n) \o Sp
          \o Words(3) \o Sp \o Substring(book_idea, SummaryPrefixHAL9)
          \o (IF Len(book_idea) > SummaryPrefixHAL9 THEN <<"w">> ELSE <<>>)
  IN  IF \E i \in 1..n : items[i].null
      THEN [threw |-> TRUE, value |-> NoBody]   \* section.section_name of null
      ELSE IF request.num_pages = Undefined
      THEN [threw |-> TRUE, value |-> NoBody]   \* num_pages.toString()
      ELSE [threw |-> FALSE,
            value |-> [kind |-> "toc",
                       toc |-> tocSections,
                       total_estimated_pages |-> ToString(request.num_pages[1]),
                       book_summary |-> bookSummary]]

\* generateTOC without the check of hal9Response.ok
generateTOCAfterFetch_NoOkCheck(request, reply) ==
  IF reply.kind = "throw" THEN generateLocalTOC(request)
  ELSE IF reply.kind = "badjson" THEN generateLocalTOC(request)
  ELSE IF reply.kind # "array" THEN generateLocalTOC(request)
  ELSE LET r == TocFromArray(request, reply.items)
       IN  IF r.threw THEN generateLocalTOC(request) ELSE r

\* generateTOC after the fetch has answered with `reply`
generateTOCAfterFetch(request, reply) ==
  IF reply.kind = "throw" THEN generateLocalTOC(request)          \* catch
  ELSE IF ~reply.ok THEN generateLocalTOC(request)
  ELSE IF reply.kind = "badjson" THEN generateLocalTOC(request)   \* catch
  ELSE IF reply.kind # "array" THEN generateLocalTOC(request)
  ELSE LET r == TocFromArray(request, reply.items)
       IN  IF r.threw THEN generateLocalTOC(request) ELSE r       \* catch

\* whether generateTOC reaches its fetch
TocFetches(token) == ~FalsyStr(token)

\* a validation that lets the empty string through
TocMissingFields_UndefinedOnly(request) ==
  request.title = Undefined \/ request.author = Undefined
    \/ request.book_idea = Undefined

\* the required-field validation of the outline handler
TocMissingFields(request) ==
  FalsyStr(request.title) \/ FalsyStr(request.author) \/ FalsyStr(request.book_idea)

\* the handler's response once generateTOC has returned or thrown
TocResponse(r) ==
  IF r.threw THEN ErrorResponse(500, "exception")
  ELSE [status |-> 200, body |-> r.value]

\* Deno.serve handler of generate-toc up to the call of generateTOC:
\* the response when the handler answers before it
TocEarlyResponse(request) ==
  IF request.method = "OPTIONS" THEN OptionsResponse
  ELSE IF request.method # "POST" THEN ErrorResponse(405, "Method not allowed")
  ELSE IF ~request.parses THEN ErrorResponse(500, "exception")   \* req.json()
  ELSE ErrorResponse(400, "Missing required fields")

TocAnswersEarly(request) ==
  request.method # "POST" \/ ~request.parses \/ TocMissingFields(request)

(***************************************************************************)
(* The requests and upstream replies the outline handler is run on.        *)
(***************************************************************************)
Token == <<"k">>

Tokens == {Undefined, Some(<<>>), Some(Token)}

OptTexts == {Undefined, Some(<<>>), Some(<<"T">>)}

BookIdeas == {Undefined, Some(<<>>), Some(<<"i">>), Some(<<"I", " ", "j">>)}

\* the page count the wizard starts with
DefaultPages == 100

TocPostBodies ==
  [handler : {"toc"}, method : {"POST"}, parses : {TRUE},
   title : OptTexts, author : OptTexts, book_idea : BookIdeas,
   num_pages : {Undefined} \cup {Some(n) : n \in 0..MaxPages}
                 \cup {Some(DefaultPages)},
   style : {Undefined, Some(<<"a">>)},
   chapter_count : {Undefined, Some(3)},
   target_length : {Undefined, Some(<<"l">>)}]

EmptyTocBody(method, parses) ==
  [handler |-> "toc", method |-> method, parses |-> parses,
   title |-> Undefined, author |-> Undefined, book_idea |-> Undefined,
   num_pages |-> Undefined, style |-> Undefined, chapter_count |-> Undefined,
   target_length |-> Undefined]

TocRequests ==
  TocPostBodies
    \cup {EmptyTocBody(m, p) : m \in {"OPTIONS", "GET", "PUT"}, p \in BOOLEAN}
    \cup {EmptyTocBody("POST", FALSE)}

\* the elements of an upstream outline
TocItems ==
  [null : {FALSE},
   section_name : {Undefined, Some(<<"N">>)},
   section_ideas : {Undefined, Some(<<<<"x">>, <<"y", " ", "z">>>>)}]
    \cup {[null |-> TRUE, section_name |-> Undefined, section_ideas |-> Undefined]}

SeqsUpTo(S, n) == UNION {[1..k -> S] : k \in 0..n}

NoItems == <<>>

FullItem ==
  [null |-> FALSE, section_name |-> Some(<<"N">>),
   section_ideas |-> Some(<<<<"x">>, <<"y", " ", "z">>>>)]

\* upstream arrays: every array of at most MaxMixed elements, and the longer
\* ones whose elements are all alike
TocArrays ==
  SeqsUpTo(TocItems, MaxMixed)
    \cup {[i \in 1..k |-> FullItem] : k \in (MaxMixed + 1)..MaxSections}

\* a reply is a thrown fetch, or a status (ok: 2xx) with a payload that is
\* not JSON, JSON but no array, or an array
TocReplies ==
  {[kind |-> "throw", ok |-> FALSE, items |-> NoItems]}
    \cup [kind : {"badjson", "object"}, ok : BOOLEAN, items : {NoItems}]
    \cup {[kind |-> "array", ok |-> TRUE, items |-> a] : a \in TocArrays}
    \cup {[kind |-> "array", ok |-> FALSE, items |-> <<FullItem>>]}

(***************************************************************************)
(* Row level security, supabase/migrations.                                *)
(*                                                                         *)
(* The schema is what the migrations have made of the database so far: the *)
(* tables, the tables with row level security enabled and the policies.    *)
(* A migration is the sequence of its statements that touch these; it runs *)
(* in one transaction, so a statement that fails leaves the schema as it   *)
(* was.  Every policy of the migrations is permissive and TO authenticated.*)
(***************************************************************************)
Null == <<>>

Users == {"u1", "u2"}

Emails == {"e1", "e2"}

\* auth.users.email of an account
EmailOf(uid) == IF uid = "u1" THEN "e1" ELSE "e2"

\* a policy that admits every signed-in user: USING (true)
OwnRow_Anyone(uid, user_id) == TRUE

\* auth.uid() = user_id, as a policy reads it: NULL is not TRUE
OwnRow(uid, user_id) == user_id # Null /\ user_id[1] = uid

\* the predicates of the policies
P_own_submission == "auth.uid() = user_id"

P_own_user == "auth.uid() = id"

P_own_or_email ==
  "auth.uid() = user_id OR email = (SELECT email FROM auth.users WHERE id = auth.uid())"

P_true == "true"

\* a policy without the clause
P_none == "none"

\* a predicate of a policy, for the signed-in user uid and a row; `accounts`
\* are the ids of auth.users (the subquery of an account that is gone
\* yields NULL)
Holds(pred, uid, row, accounts) ==
  CASE pred = P_own_submission -> OwnRow(uid, row.user_id)
    [] pred = P_own_user -> row.id = uid
    [] pred = P_own_or_email ->
         \/ OwnRow(uid, row.user_id)
         \/ uid \in accounts /\ row.email = EmailOf(uid)
    [] pred = P_true -> TRUE
    [] OTHER -> FALSE

Policy(table, name, cmd, using, check) ==
  [table |-> table, name |-> name, cmd |-> cmd, using |-> using, check |-> check]

\* the statements of a migration
CreateTable(table) == [stmt |-> "CREATE TABLE IF NOT EXISTS", table |-> table]

EnableRls(table) == [stmt |-> "ENABLE ROW LEVEL SECURITY", table |-> table]

CreatePolicy(policy) == [stmt |-> "CREATE POLICY", policy |-> policy]

CreatePolicyIfNotExists(policy) ==
  [stmt |-> "IF NOT EXISTS CREATE POLICY", policy |-> policy]

DropPolicy(table, name) ==
  [stmt |-> "DROP POLICY IF EXISTS", table |-> table, name |-> name]

\* FOR pol IN SELECT policyname FROM pg_policies WHERE tablename = table
\* LOOP EXECUTE format('DROP POLICY IF EXISTS %I ON table', ...)
DropAllPolicies(table) == [stmt |-> "DROP EVERY POLICY", table |-> table]

HasPolicy(s, table, name) ==
  \E p \in s.policies : p.table = table /\ p.name = name

\* one statement on the schema s; CREATE POLICY fails when the table has a
\* policy of that name
Exec(s, st) ==
  CASE st.stmt = "CREATE TABLE IF NOT EXISTS" ->
         [s EXCEPT !.tables = @ \cup {st.table}]
    [] st.stmt = "ENABLE ROW LEVEL SECURITY" ->
         [s EXCEPT !.rls = @ \cup {st.table}]
    [] st.stmt = "CREATE POLICY" ->
         IF HasPolicy(s, st.policy.table, st.policy.name)
         THEN [s EXCEPT !.failed = TRUE]
         ELSE [s EXCEPT !.policies = @ \cup {st.policy}]
    [] st.stmt = "IF NOT EXISTS CREATE POLICY" ->
         IF HasPolicy(s, st.policy.table, st.policy.name)
         THEN s
         ELSE [s EXCEPT !.policies = @ \cup {st.policy}]
    [] st.stmt = "DROP POLICY IF EXISTS" ->
         [s EXCEPT !.policies =
            {p \in @ : ~(p.table = st.table /\ p.name = st.name)}]
    [] st.stmt = "DROP EVERY POLICY" ->
         [s EXCEPT !.policies = {p \in @ : p.table # st.table}]

RECURSIVE Run(_, _)
\* the statements of a migration, in order, until one fails
Run(s, statements) ==
  IF statements = <<>> \/ s.failed THEN s
  ELSE Run(Exec(s, Head(statements)), Tail(statements))

\* 20250621001522_proud_sun.sql
proud_sun ==
  << CreateTable("form_submissions"),
     EnableRls("form_submissions"),
     CreatePolicy(Policy("form_submissions", "Users can read own submissions",
                         "SELECT", P_own_submission, P_none)),
     CreatePolicy(Policy("form_submissions", "Users can create submissions",
                         "INSERT", P_none, P_own_submission)),
     CreatePolicy(Policy("form_submissions", "Users can update own submissions",
                         "UPDATE", P_own_submission, P_none)) >>

\* 20250621004232_small_sunset.sql: the trigger on auth.users, no policy
small_sunset == << >>

\* 20250621004716_rapid_ember.sql: the notification trigger, no policy
rapid_ember == << >>

\* 20250621184216_snowy_lab.sql
snowy_lab ==
  << DropPolicy("form_submissions", "Users can read own submissions"),
     DropPolicy("form_submissions", "Users can create submissions"),
     DropPolicy("form_submissions", "Users can update own submissions"),
     CreatePolicy(Policy("form_submissions", "Users can read own submissions",
                         "SELECT", P_own_submission, P_none)),
     CreatePolicy(Policy("form_submissions", "Users can create submissions",
                         "INSERT", P_none, P_own_submission)),
     CreatePolicy(Policy("form_submissions", "Users can update own submissions",
                         "UPDATE", P_own_submission, P_none)),
     CreatePolicy(Policy("form_submissions", "Users can read submissions by email",
                         "SELECT", P_own_or_email, P_none)) >>

\* 20250621184750_late_violet.sql
late_violet ==
  << CreatePolicyIfNotExists(
       Policy("users", "Users can read user data for form submissions",
              "SELECT", P_true, P_none)),
     DropPolicy("form_submissions", "Users can read submissions by email"),
     DropPolicy("form_submissions", "Users can read own submissions"),
     CreatePolicy(Policy("form_submissions", "Users can read own submissions",
                         "SELECT", P_own_or_email, P_none)) >>

\* 20250621185922_precious_dust.sql
precious_dust ==
  << DropPolicy("users", "Users can read own data"),
     DropPolicy("users", "Users can read user data for form submissions"),
     DropPolicy("users", "Users can update own data"),
     CreatePolicy(Policy("users", "Users can read their own data",
                         "SELECT", P_own_user, P_none)),
     CreatePolicy(Policy("users", "Users can insert their own data",
                         "INSERT", P_none, P_own_user)),
     CreatePolicy(Policy("users", "Users can update their own data",
                         "UPDATE", P_own_user, P_own_user)),
     DropPolicy("form_submissions", "Users can create submissions"),
     DropPolicy("form_submissions", "Users can read own submissions"),
     DropPolicy("form_submissions", "Users can update own submissions"),
     CreatePolicy(Policy("form_submissions", "Users can insert their own submissions",
                         "INSERT", P_none, P_own_submission)),
     CreatePolicy(Policy("form_submissions", "Users can read their own submissions",
                         "SELECT", P_own_submission, P_none)),
     CreatePolicy(Policy("form_submissions", "Users can update their own submissions",
                         "UPDATE", P_own_submission, P_own_submission)),
     EnableRls("users"),
     EnableRls("form_submissions") >>

\* 20250625232535_heavy_coral.sql
heavy_coral ==
  << CreateTable("users"),
     CreateTable("form_submissions"),
     EnableRls("users"),
     EnableRls("form_submissions"),
     DropAllPolicies("users"),
     DropAllPolicies("form_submissions"),
     CreatePolicy(Policy("users", "allow_read_own_user",
                         "SELECT", P_own_user, P_none)),
     CreatePolicy(Policy("users", "allow_insert_own_user",
                         "INSERT", P_none, P_own_user)),
     CreatePolicy(Policy("users", "allow_update_own_user",
                         "UPDATE", P_own_user, P_none)),
     CreatePolicy(Policy("form_submissions", "allow_read_own_submissions",
                         "SELECT", P_own_submission, P_none)),
     CreatePolicy(Policy("form_submissions", "allow_insert_own_submissions",
                         "INSERT", P_none, P_own_submission)),
     CreatePolicy(Policy("form_submissions", "allow_update_own_submissions",
                         "UPDATE", P_own_submission, P_none)) >>

\* the migrations in the order of their names
Migrations_ByName ==
  << heavy_coral, late_violet, precious_dust, proud_sun, rapid_ember,
     small_sunset, snowy_lab >>

\* the migrations in the order of their timestamps
Migrations ==
  << proud_sun, small_sunset, rapid_ember, snowy_lab, late_violet,
     precious_dust, heavy_coral >>

NumMigrations == Len(Migrations)

\* the next migration on the schema s: applied, or rolled back
Migrate(s) ==
  LET t == Run(s, Migrations[s.applied + 1])
  IN  IF t.failed THEN s ELSE [t EXCEPT !.applied = @ + 1]

\* the users table and its policies are older than the first migration of
\* the directory
PoliciesBefore ==
  { Policy("users", "Users can read own data", "SELECT", P_own_user, P_none),
    Policy("users", "Users can update own data", "UPDATE", P_own_user, P_none) }

SchemasBefore ==
  [applied : {0}, failed : {FALSE}, tables : {{"users"}},
   rls : {{}, {"users"}}, policies : SUBSET PoliciesBefore]

RECURSIVE MigrateAll(_)
MigrateAll(s) ==
  IF s.applied = NumMigrations \/ Migrate(s) = s THEN s ELSE MigrateAll(Migrate(s))

\* the schema of the deployment: every migration applied
Deployed ==
  MigrateAll([applied |-> 0, failed |-> FALSE, tables |-> {"users"},
              rls |-> {}, policies |-> {}])

\* the policies of a table for a command
PoliciesFor(table, cmd) ==
  {p \in schema.policies : p.table = table /\ p.cmd \in {cmd, "ALL"}}

\* a table whose rows every role with the privilege sees
RowSecurityOff(table) == table \notin schema.rls

\* the rows a command of the signed-in user uid sees: with row level
\* security, those some policy's USING admits
Visible(table, cmd, uid, row) ==
  /\ table \in schema.tables
  /\ \/ RowSecurityOff(table)
     \/ \E p \in PoliciesFor(table, cmd) : Holds(p.using, uid, row, users)

\* the rows a command of the signed-in user uid may write: those some
\* policy's WITH CHECK admits, its USING where it has no WITH CHECK
Checked(table, cmd, uid, row) ==
  /\ table \in schema.tables
  /\ \/ RowSecurityOff(table)
     \/ \E p \in PoliciesFor(table, cmd) :
          Holds(IF p.check = P_none THEN p.using ELSE p.check, uid, row, users)

(***************************************************************************)
(* State.                                                                  *)
(***************************************************************************)
NoRequest == [handler |-> "none"]

NoResponse == [status |-> 0, body |-> NoBody]

\* the wizard as it is mounted: step 1, the required fields of bookRequest
\* empty (fields is TRUE when title, author and book_idea are all filled
\* in), tocData and generatedContent null (the two flags tell whether they
\* are set, toc is the number of sections of tocData.toc), no chapter being
\* generated.  tocCalls and pdfCalls are the outline and PDF requests in
\* flight; `pending` counts the generateContent calls in flight per
\* chapter; `all`, `before` and `succeeded` remember that the chapters were
\* generated at once, the chapters stored at that time and the chapters
\* whose call has returned a result since
\* setError(null)
NoError == [kind |-> "none", chapter |-> 0]

\* setError('Failed to generate chapter ' + n + ...)
ChapterError(n) == [kind |-> "chapter", chapter |-> n]

\* Object.keys(chapters).length === 0
NoStoredChapters == [n \in {} |-> [chapter_number |-> n]]

NoWizard ==
  [currentStep |-> 1,
   fields |-> FALSE,
   isGenerating |-> FALSE,
   tocCalls |-> <<>>,
   tocData |-> FALSE,
   generatedContent |-> FALSE,
   pdfUrl |-> FALSE,
   pdfCalls |-> <<>>,
   toc |-> 0,
   chapters |-> NoStoredChapters,
   pending |-> [n \in 1..MaxToc |-> 0],
   generatingChapters |-> {},
   error |-> NoError,
   all |-> FALSE,
   before |-> {},
   succeeded |-> {}]

Idle ==
  /\ wizard = NoWizard
  /\ req = NoRequest
  /\ calls = <<>>
  /\ resp = NoResponse
  /\ submissions = <<>>
  /\ now = 0
  /\ dbOps = <<>>
  /\ notices = <<>>
  /\ users = Users
  /\ schema = Deployed

storeVars == <<submissions, now, dbOps, notices, users, schema, wizard>>

InitToc ==
  /\ env \in [hal9Token : Tokens, adminKey : {Undefined}]
  /\ Idle

\* one invocation of the outline handler
TocRequest ==
  \E request \in TocRequests :
    /\ req = NoRequest
    /\ req' = request
    /\ IF TocAnswersEarly(request)
       THEN /\ calls' = <<>>
            /\ resp' = TocEarlyResponse(request)
       ELSE IF ~TocFetches(env.hal9Token)
       THEN /\ calls' = <<>>
            /\ resp' = TocResponse(generateLocalTOC(request))
       ELSE \E reply \in TocReplies :
              /\ calls' = <<[call |-> TocCall(request), reply |-> reply]>>
              /\ resp' = TocResponse(generateTOCAfterFetch(request, reply))
    /\ UNCHANGED <<env, storeVars>>

\* the response has been sent and the invocation is over: a handler keeps
\* nothing from one request to the next
Return ==
  /\ req # NoRequest
  /\ req' = NoRequest
  /\ calls' = <<>>
  /\ resp' = NoResponse
  /\ dbOps' = <<>>
  /\ notices' = <<>>
  /\ UNCHANGED <<env, submissions, now, users, schema, wizard>>

NextToc == TocRequest \/ Return

SpecToc == InitToc /\ [][NextToc]_vars

(***************************************************************************)
(* The chapter-content handler, generate-content/index.ts.                 *)
(***************************************************************************)
WordsPerPage == 300

UpperLetters ==
  <<"A", "B", "C", "D", "E", "F", "G", "H", "I", "J", "K", "L", "M",
    "N", "O", "P", "Q", "R", "S", "T", "U", "V", "W", "X", "Y", "Z">>

LowerLetters ==
  <<"a", "b", "c", "d", "e", "f", "g", "h", "i", "j", "k", "l", "m",
    "n", "o", "p", "q", "r", "s", "t", "u", "v", "w", "x", "y", "z">>

\* String.prototype.toLowerCase
ToLowerCase(s) ==
  [i \in 1..Len(s) |->
     IF \E k \in 1..26 : UpperLetters[k] = s[i]
     THEN LowerLetters[CHOOSE k \in 1..26 : UpperLetters[k] = s[i]]
     ELSE s[i]]

\* s.split(/\s+/).length: the separators are the maximal runs of whitespace,
\* and n separators cut a string into n + 1 pieces, empty ones included
SplitLength(s) ==
  1 + Cardinality({i \in 1..Len(s) :
                     /\ s[i] \in Whitespace
                     /\ (i = 1 \/ s[i - 1] \notin Whitespace)})

\* Math.ceil(wordCount / 300)
EstimatedPages(wordCount) == (wordCount + WordsPerPage - 1) \div WordsPerPage

generateIntroduction(chapterTitle, bookIdea) ==
  Words(5) \o Sp \o ToLowerCase(chapterTitle) \o Words(25)
    \o Substring(bookIdea, 100) \o Words(80)

generateSectionContent(idea, sectionNumber) ==
  <<"w">> \o Sp \o ToString(sectionNumber) \o <<"w">> \o Sp \o idea \o Sp
    \o Words(4) \o Sp \o ToLowerCase(idea) \o Words(27) \o Sp
    \o ToLowerCase(idea) \o Sp \o Words(29) \o Sp
    \o ToLowerCase(idea) \o Sp \o Words(51) \o Sp
    \o ToLowerCase(idea) \o Words(58) \o Sp
    \o ToLowerCase(idea) \o Words(42) \o Sp
    \o ToLowerCase(idea) \o Sp \o Words(47)

generateConclusion(chapterTitle, ideas) ==
  Words(9) \o Sp \o ToLowerCase(chapterTitle) \o Words(27) \o Sp
    \o ToString(Len(ideas)) \o Sp \o Words(2) \o Sp
    \o Join([i \in 1..Len(ideas) |->
               ToString(i) \o Words(2) \o ideas[i] \o Words(9)], Sp)
    \o Sp \o Words(113)

generateOutline(chapterTitle, ideas) ==
  <<"w">> \o Sp \o chapterTitle \o Sp \o Words(3) \o Sp
    \o Join([i \in 1..Len(ideas) |->
               ToString(i) \o Words(2) \o ideas[i] \o Words(12)], Sp)
    \o Sp \o Words(39) \o Sp

generateDraft(chapterTitle, ideas, bookIdea, title) ==
  LET introduction == generateIntroduction(chapterTitle, bookIdea)
      mainContent ==
        Join([i \in 1..Len(ideas) |-> generateSectionContent(ideas[i], i)], Sp)
      conclusion == generateConclusion(chapterTitle, ideas)
  IN  <<"w">> \o Sp \o chapterTitle \o Sp \o introduction \o Sp
        \o mainContent \o Sp \o conclusion \o Sp
        \o Words(16) \o title \o Words(17) \o Sp

generatePolishedContent(chapterTitle, ideas, bookIdea, title) ==
  generateDraft(chapterTitle, ideas, bookIdea, title)
    \o Sp \o Words(11) \o Sp \o ToLowerCase(chapterTitle) \o Words(4) \o Sp
    \o Join([i \in 1..Len(ideas) |-> Words(2) \o ideas[i] \o Words(6)], Sp)
    \o Sp \o Words(99) \o Sp

generateContentByDepth(chapter, depth, bookIdea, title) ==
  CASE depth = "outline" ->
         generateOutline(chapter.section_name, chapter.section_ideas)
    [] depth = "draft" ->
         generateDraft(chapter.section_name, chapter.section_ideas, bookIdea, title)
    [] depth = "polished" ->
         generatePolishedContent(chapter.section_name, chapter.section_ideas,
                                 bookIdea, title)
    [] OTHER ->
         generateDraft(chapter.section_name, chapter.section_ideas, bookIdea, title)

ChapterBody(chapterNumber, chapterTitle, content, wordCount) ==
  [kind |-> "chapter",
   chapter_number |-> chapterNumber,
   chapter_title |-> chapterTitle,
   content |-> content,
   word_count |-> wordCount,
   estimated_pages |-> EstimatedPages(wordCount)]

generateChapterContentFallback(request, chapterNumber) ==
  LET chapter == request.toc[1][chapterNumber]
      content == generateContentByDepth(chapter,
                   OrDefault(request.content_depth, "draft"),
                   request.book_idea[1], request.title[1])
  IN  ChapterBody(chapterNumber, chapter.section_name, content, SplitLength(content))

\* the upstream chapter endpoint, .../proxy/generate-book-chapters
ContentCall(request, chapterNumber) ==
  [endpoint |-> "generate-book-chapters",
   body |-> [book_idea |-> request.book_idea[1], chapters |-> <<chapterNumber>>,
             title |-> request.title[1], author |-> request.author[1]]]

\* generateChapterContentWithHAL9 after the fetch has answered with `reply`;
\* threw is TRUE when the function throws
generateChapterContentWithHAL9(request, chapterNumber, reply) ==
  LET chapter == request.toc[1][chapterNumber]
      Throw == [threw |-> TRUE, value |-> NoBody]
  IN  IF reply.kind = "throw" THEN Throw
      ELSE IF ~reply.ok THEN Throw
      ELSE IF reply.kind = "badjson" THEN Throw
      ELSE IF reply.generated_chapters = Undefined
                \/ Len(reply.generated_chapters[1]) = 0 THEN Throw
      ELSE LET generatedChapter == reply.generated_chapters[1][1]
               generatedContent ==
                 IF FalsyStr(generatedChapter.content)
                 THEN generatedChapter.chapter_content
                 ELSE generatedChapter.content
           IN  IF FalsyStr(generatedContent) THEN Throw
               ELSE [threw |-> FALSE,
                     value |->
                       ChapterBody(chapterNumber,
                         IF FalsyStr(generatedChapter.title)
                         THEN chapter.section_name
                         ELSE generatedChapter.title[1],
                         generatedContent[1],
                         SplitLength(generatedContent[1]))]

\* the required-field validation of the chapter-content handler
ContentMissingFields(request) ==
  \/ FalsyStr(request.title)
  \/ FalsyStr(request.author)
  \/ FalsyStr(request.book_idea)
  \/ request.toc = Undefined

\* const chapterNumber = requestData.chapter_number || 1
ChapterNumberOf(request) ==
  IF FalsyNum(request.chapter_number) THEN 1 ELSE request.chapter_number[1]

ChapterOutOfRange(request) ==
  ChapterNumberOf(request) < 1 \/ ChapterNumberOf(request) > Len(request.toc[1])

InvalidChapterResponse(request) ==
  [status |-> 400,
   body |-> [kind |-> "error",
             error |-> "Invalid chapter number. Must be between 1 and ${toc.length}",
             toc_length |-> ToString(Len(request.toc[1]))]]

ContentAnswersEarly(request) ==
  \/ request.method # "POST"
  \/ ~request.parses
  \/ ContentMissingFields(request)
  \/ ChapterOutOfRange(request)

\* Deno.serve handler of generate-content up to the generation of content
ContentEarlyResponse(request) ==
  IF request.method = "OPTIONS" THEN OptionsResponse
  ELSE IF request.method # "POST" THEN ErrorResponse(405, "Method not allowed")
  ELSE IF ~request.parses THEN ErrorResponse(500, "exception")   \* req.json()
  ELSE IF ContentMissingFields(request)
  THEN ErrorResponse(400, "Missing required fields")
  ELSE InvalidChapterResponse(request)

\* a handler that lets the upstream failure reach its outer catch block
ContentAfterFetch_NoFallback(request, reply) ==
  LET r == generateChapterContentWithHAL9(request, ChapterNumberOf(request), reply)
  IN  IF r.threw THEN ErrorResponse(500, "exception")
      ELSE [status |-> 200, body |-> r.value]

\* the path selection of the handler once the upstream has answered
ContentAfterFetch(request, reply) ==
  LET r == generateChapterContentWithHAL9(request, ChapterNumberOf(request), reply)
  IN  [status |-> 200,
       body |-> IF r.threw
                THEN generateChapterContentFallback(request, ChapterNumberOf(request))
                ELSE r.value]

(***************************************************************************)
(* The requests and upstream replies the chapter-content handler is run    *)
(* on.                                                                     *)
(***************************************************************************)
ContentSections ==
  <<[section_name |-> <<"N">>, section_ideas |-> <<>>,
     estimated_pages |-> <<"1", "-", "2">>],
    [section_name |-> <<"M", "y", " ", "T">>, section_ideas |-> <<<<"X">>>>,
     estimated_pages |-> <<"2", "-", "4">>],
    [section_name |-> <<"E">>, section_ideas |-> <<<<"x", " ">>, <<"Y", " ", "z">>>>,
     estimated_pages |-> <<"3", "-", "5">>]>>

\* the outline of k sections that starts with section j and goes round
OutlineOf(k, j) == [i \in 1..k |-> ContentSections[((i + j - 2) % 3) + 1]]

ContentOutlines == {OutlineOf(k, j) : k \in 0..MaxToc, j \in 1..3}

ContentDepths == {Undefined, Some("outline"), Some("draft"), Some("polished"),
                  Some("other")}

ContentPostBodies ==
  [handler : {"content"}, method : {"POST"}, parses : {TRUE},
   title : {Undefined, Some(<<"T">>)},
   author : {Some(<<>>), Some(<<"A">>)},
   book_idea : {Undefined, Some(<<"i">>), Some(<<"I", " ", "j">>)},
   toc : {Undefined} \cup {Some(t) : t \in ContentOutlines},
   chapter_number : {Undefined} \cup {Some(n) : n \in (-1)..(MaxToc + 1)},
   content_depth : ContentDepths,
   generation_mode : {Undefined}]

EmptyContentBody(method, parses) ==
  [handler |-> "content", method |-> method, parses |-> parses,
   title |-> Undefined, author |-> Undefined, book_idea |-> Undefined,
   toc |-> Undefined, chapter_number |-> Undefined,
   content_depth |-> Undefined, generation_mode |-> Undefined]

ContentRequests ==
  ContentPostBodies
    \cup {EmptyContentBody(m, p) : m \in {"OPTIONS", "GET", "PUT"}, p \in BOOLEAN}
    \cup {EmptyContentBody("POST", FALSE)}

\* texts an upstream chapter may carry
UpstreamTexts ==
  {<<"a">>, <<"a", " ", "b">>, <<" ", "a">>, <<"a", "\n">>, <<" ">>,
   <<"a", " ", " ", "b", "\n">>, Words(WordsPerPage), Words(WordsPerPage + 1)}

GeneratedChapters ==
  [content : {Some(t) : t \in UpstreamTexts}, chapter_content : {Undefined},
   title : {Undefined}]
    \cup [content : {Undefined, Some(<<>>)},
          chapter_content : {Undefined, Some(<<>>), Some(<<"c", " ">>)},
          title : {Undefined}]
    \cup [content : {Some(<<"a">>)}, chapter_content : {Some(<<"c", " ">>)},
          title : {Some(<<>>), Some(<<"G">>)}]

NoChapters == Undefined

ContentReplies ==
  {[kind |-> "throw", ok |-> FALSE, generated_chapters |-> NoChapters],
   [kind |-> "badjson", ok |-> FALSE, generated_chapters |-> NoChapters],
   [kind |-> "badjson", ok |-> TRUE, generated_chapters |-> NoChapters],
   [kind |-> "object", ok |-> TRUE, generated_chapters |-> NoChapters],
   [kind |-> "object", ok |-> TRUE, generated_chapters |-> Some(<<>>)]}
    \cup {[kind |-> "object", ok |-> TRUE, generated_chapters |-> Some(<<c>>)] :
            c \in GeneratedChapters}
    \cup {[kind |-> "object", ok |-> b,
           generated_chapters |->
             Some(<<[content |-> Some(<<"a">>), chapter_content |-> Undefined,
                     title |-> Some(<<"G">>)],
                    [content |-> Some(<<"b">>), chapter_content |-> Undefined,
                     title |-> Undefined]>>)] : b \in BOOLEAN}

InitContent ==
  /\ env \in [hal9Token : Tokens, adminKey : {Undefined}]
  /\ Idle

\* one invocation of the chapter-content handler
ContentRequest ==
  \E request \in ContentRequests :
    /\ req = NoRequest
    /\ req' = request
    /\ IF ContentAnswersEarly(request)
       THEN /\ calls' = <<>>
            /\ resp' = ContentEarlyResponse(request)
       ELSE IF FalsyStr(env.hal9Token)
       THEN /\ calls' = <<>>
            /\ resp' = [status |-> 200,
                        body |-> generateChapterContentFallback(request,
                                   ChapterNumberOf(request))]
       ELSE \E reply \in ContentReplies :
              /\ calls' = <<[call |-> ContentCall(request, ChapterNumberOf(request)),
                             reply |-> reply]>>
              /\ resp' = ContentAfterFetch(request, reply)
    /\ UNCHANGED <<env, storeVars>>

NextContent == ContentRequest \/ Return

SpecContent == InitContent /\ [][NextContent]_vars

(***************************************************************************)
(* The form_submissions table: its columns, defaults, policies and         *)
(* triggers (migrations), reached by signed-in users through the database  *)
(* API and by the admin handler with the service role.                     *)
(*                                                                         *)
(* A row keeps the columns id, user_id, book_topic, status and updated_at; *)
(* book_topic stands for the text columns (name, email, book_topic,        *)
(* book_style, book_description, additional_notes), and the order of the   *)
(* ids is the order of created_at.  A nullable column holds <<>> for NULL   *)
(* and <<v>> for the value v.                                               *)
(***************************************************************************)
\* CREATE TYPE submission_status AS ENUM (...)
submission_status == {"pending", "in_progress", "completed", "cancelled"}

Topics == {"t1", "t2"}

\* a column of an INSERT or of an UPDATE ... SET: not named, or named with a
\* value (NULL included)
NotGiven == [given |-> FALSE, value |-> Null]

Given(v) == [given |-> TRUE, value |-> v]

\* the value of a status column cannot be cast to submission_status
BadStatus(col) ==
  col.given /\ col.value # Null /\ col.value[1] \notin submission_status

\* BEFORE UPDATE trigger update_form_submissions_updated_at
update_updated_at_column(new) == [new EXCEPT !.updated_at = now]

\* the rows of the table are kept in the order of their ids
HasRow(rows, id) == \E i \in 1..Len(rows) : rows[i].id = id

RowIndex(rows, id) == CHOOSE i \in 1..Len(rows) : rows[i].id = id

\* DEFAULT gen_random_uuid(): an id no row of the table has
NewId == IF submissions = <<>> THEN 1 ELSE submissions[Len(submissions)].id + 1

\* what PERFORM net.http_post(...) of the trigger function does: it queues
\* the request, or pg_net is not installed, or it raises another error (a
\* setting current_setting() does not find, a refused request)
DispatchOutcomes == {"queued", "undefined_function", "error"}

\* a trigger function without the EXCEPTION clause: the error leaves the
\* function
notify_new_submission_NoHandler(new, outcome) ==
  IF outcome = "queued"
  THEN [raised |-> FALSE, notices |-> <<[kind |-> "http_post", submission |-> new]>>]
  ELSE [raised |-> TRUE, notices |-> <<>>]

\* AFTER INSERT trigger trigger_email_notification: the function posts the
\* row to send-submission-email; EXCEPTION WHEN undefined_function and WHEN
\* OTHERS turn an error into a warning, and RETURN NEW follows
notify_new_submission(new, outcome) ==
  IF outcome = "queued"
  THEN [raised |-> FALSE, notices |-> <<[kind |-> "http_post", submission |-> new]>>]
  ELSE [raised |-> FALSE, notices |-> <<[kind |-> "warning", submission |-> new]>>]

\* INSERT INTO form_submissions by the signed-in user uid: the enum type,
\* the column defaults, the INSERT policies (allow_insert_own_submissions
\* once the schema is deployed), the foreign key to users and the AFTER
\* INSERT trigger; an error the trigger raises aborts the statement
InsertSubmission(uid, user_id, email, book_topic, status, outcome) ==
  LET Refused == [ok |-> FALSE, rows |-> submissions, notices |-> <<>>]
      new == [id |-> NewId,
              user_id |-> user_id,
              email |-> email,
              book_topic |-> book_topic,
              status |-> IF status.given THEN status.value ELSE Some("pending"),
              updated_at |-> now]
      t == notify_new_submission(new, outcome)
  IN  IF BadStatus(status) THEN Refused
      ELSE IF ~Checked("form_submissions", "INSERT", uid, new) THEN Refused
      ELSE IF user_id # Null /\ user_id[1] \notin users THEN Refused
      ELSE IF t.raised THEN Refused
      ELSE [ok |-> TRUE, rows |-> Append(submissions, new),
            notices |-> t.notices]

\* SELECT * FROM form_submissions by the signed-in user uid
SelectSubmissions(uid) ==
  SelectSeq(submissions,
            LAMBDA r : Visible("form_submissions", "SELECT", uid, r))

\* SELECT id FROM users by the signed-in user uid
SelectUsers(uid) ==
  {u \in users : Visible("users", "SELECT", uid, [id |-> u, email |-> EmailOf(u)])}

\* a DELETE policy for the owner of a row
DeleteOwnSubmission_OwnRowPolicy(uid, id) ==
  [rows |-> SelectSeq(submissions,
                      LAMBDA r : ~(r.id = id /\ OwnRow(uid, r.user_id)))]

\* DELETE FROM form_submissions WHERE id = id by the signed-in user uid:
\* the rows the DELETE policies (and, for the WHERE clause, the SELECT
\* policies) admit; the deployed schema has no policy FOR DELETE or FOR ALL
DeleteOwnSubmission(uid, id) ==
  [rows |-> SelectSeq(submissions,
                      LAMBDA r : ~(/\ r.id = id
                                   /\ Visible("form_submissions", "DELETE", uid, r)
                                   /\ Visible("form_submissions", "SELECT", uid, r)))]

\* DELETE FROM auth.users WHERE id = uid: users.id REFERENCES auth.users(id)
\* ON DELETE CASCADE and form_submissions.user_id REFERENCES users(id) ON
\* DELETE CASCADE
DeleteUserCascade(uid) ==
  [users |-> users \ {uid},
   rows |-> SelectSeq(submissions, LAMBDA r : r.user_id # Some(uid))]

\* the row an UPDATE ... SET makes of `old`, before the trigger
SetColumns(old, user_id, status, book_topic, updated_at) ==
  [old EXCEPT
     !.user_id = IF user_id.given THEN user_id.value ELSE @,
     !.status = IF status.given THEN status.value ELSE @,
     !.book_topic = IF book_topic.given THEN book_topic.value ELSE @,
     !.updated_at = IF updated_at.given THEN updated_at.value ELSE @]

\* UPDATE form_submissions SET ... WHERE id = id by the signed-in user uid:
\* the UPDATE policies (allow_update_own_submissions once the schema is
\* deployed) and, for the WHERE clause, the SELECT policies select the rows
\* (an UPDATE that selects no row is no error), the trigger stamps them,
\* and the new row passes the policies' WITH CHECK and the foreign key
UpdateOwnSubmission(uid, id, user_id, status, book_topic) ==
  IF BadStatus(status) THEN [ok |-> FALSE, rows |-> submissions]
  ELSE IF ~HasRow(submissions, id)
  THEN [ok |-> TRUE, rows |-> submissions]
  ELSE IF ~(/\ Visible("form_submissions", "UPDATE", uid,
                       submissions[RowIndex(submissions, id)])
            /\ Visible("form_submissions", "SELECT", uid,
                       submissions[RowIndex(submissions, id)]))
  THEN [ok |-> TRUE, rows |-> submissions]
  ELSE LET i == RowIndex(submissions, id)
           new == update_updated_at_column(
                    SetColumns(submissions[i], user_id, status, book_topic, NotGiven))
       IN  IF ~Checked("form_submissions", "UPDATE", uid, new)
           THEN [ok |-> FALSE, rows |-> submissions]
           ELSE IF new.user_id # Null /\ new.user_id[1] \notin users
           THEN [ok |-> FALSE, rows |-> submissions]
           ELSE [ok |-> TRUE, rows |-> [submissions EXCEPT ![i] = new]]

\* an update of a status column of type text: any label is stored
UpdateAsServiceRole_TextStatus(id, status, date) ==
  IF ~HasRow(submissions, id)
  THEN [ok |-> FALSE, rows |-> submissions]
  ELSE [ok |-> TRUE,
        rows |-> [submissions EXCEPT ![RowIndex(submissions, id)] =
                    update_updated_at_column(
                      SetColumns(@, NotGiven, Given(Some(status)), NotGiven, Given(date)))]]

\* an update that treats 'completed' as final
UpdateAsServiceRole_CompletedIsFinal(id, status, date) ==
  IF BadStatus(Given(Some(status))) THEN [ok |-> FALSE, rows |-> submissions]
  ELSE IF ~HasRow(submissions, id)
  THEN [ok |-> FALSE, rows |-> submissions]
  ELSE IF submissions[RowIndex(submissions, id)].status = Some("completed")
  THEN [ok |-> FALSE, rows |-> submissions]
  ELSE [ok |-> TRUE,
        rows |-> [submissions EXCEPT ![RowIndex(submissions, id)] =
                    update_updated_at_column(
                      SetColumns(@, NotGiven, Given(Some(status)), NotGiven, Given(date)))]]

\* the UPDATE of the admin handler, with the service role (no policy
\* applies): .update({ status, updated_at }).eq('id', id).select().single()
UpdateAsServiceRole(id, status, date) ==
  IF BadStatus(Given(Some(status))) THEN [ok |-> FALSE, rows |-> submissions]
  ELSE IF ~HasRow(submissions, id)
  THEN [ok |-> FALSE, rows |-> submissions]     \* .single() finds no row
  ELSE [ok |-> TRUE,
        rows |-> [submissions EXCEPT ![RowIndex(submissions, id)] =
                    update_updated_at_column(
                      SetColumns(@, NotGiven, Given(Some(status)), NotGiven, Given(date)))]]

(***************************************************************************)
(* The admin handler, admin-submissions/index.ts.                          *)
(***************************************************************************)
Bearer(key) == <<"B", "e", "a", "r", "e", "r", " ">> \o key

\* a check that does not ask whether a key is configured; `Bearer ${adminKey}`
\* of an undefined key is 'Bearer undefined'
AdminUnauthorized_NoKeyCheck(authHeader, adminKey) ==
  \/ FalsyStr(authHeader)
  \/ authHeader[1] #
       Bearer(OrDefault(adminKey, <<"u", "n", "d", "e", "f", "i", "n", "e", "d">>))

\* !authHeader || !adminKey || authHeader !== `Bearer ${adminKey}`
AdminUnauthorized(authHeader, adminKey) ==
  \/ FalsyStr(authHeader)
  \/ FalsyStr(adminKey)
  \/ authHeader[1] # Bearer(adminKey[1])

\* !id || !status of the PUT branch
PutMissingFields(request) ==
  \/ request.id = Undefined
  \/ request.id[1] = 0
  \/ request.status = Undefined
  \/ request.status[1] = ""

\* .select('*, users(email)').order('created_at', { ascending: false })
SelectAllNewestFirst ==
  [i \in 1..Len(submissions) |-> submissions[Len(submissions) + 1 - i]]

\* a handler that checks the bearer token before it looks at the method
AdminHandler_AuthFirst(request, date) ==
  LET Answer(r, rows, ops) == [resp |-> r, rows |-> rows, ops |-> ops]
  IN  IF AdminUnauthorized(request.authorization, env.adminKey)
      THEN Answer(ErrorResponse(401, "Unauthorized"), submissions, <<>>)
      ELSE IF request.method = "OPTIONS" THEN Answer(OptionsResponse, submissions, <<>>)
      ELSE IF request.method = "GET"
      THEN Answer([status |-> 200,
                   body |-> [kind |-> "submissions",
                             submissions |-> SelectAllNewestFirst]],
                  submissions, <<"select">>)
      ELSE IF request.method = "PUT"
      THEN IF ~request.parses
           THEN Answer(ErrorResponse(500, "exception"), submissions, <<>>)
           ELSE IF PutMissingFields(request)
           THEN Answer(ErrorResponse(400, "Missing id or status"), submissions, <<>>)
           ELSE LET u == UpdateAsServiceRole(request.id[1], request.status[1], date)
                IN  IF u.ok
                    THEN Answer([status |-> 200,
                                 body |-> [kind |-> "submission",
                                           submission |->
                                             u.rows[RowIndex(u.rows, request.id[1])]]],
                                u.rows, <<"update">>)
                    ELSE Answer(ErrorResponse(500, "exception"), u.rows, <<"update">>)
      ELSE Answer(ErrorResponse(405, "Method not allowed"), submissions, <<>>)

\* the Deno.serve handler of admin-submissions: its response, the table
\* after it and the statements it issued; `date` is new Date() of the
\* function's host
AdminHandler(request, date) ==
  LET Answer(r, rows, ops) == [resp |-> r, rows |-> rows, ops |-> ops]
  IN  IF request.method = "OPTIONS" THEN Answer(OptionsResponse, submissions, <<>>)
      ELSE IF AdminUnauthorized(request.authorization, env.adminKey)
      THEN Answer(ErrorResponse(401, "Unauthorized"), submissions, <<>>)
      ELSE IF request.method = "GET"
      THEN Answer([status |-> 200,
                   body |-> [kind |-> "submissions",
                             submissions |-> SelectAllNewestFirst]],
                  submissions, <<"select">>)
      ELSE IF request.method = "PUT"
      THEN IF ~request.parses
           THEN Answer(ErrorResponse(500, "exception"), submissions, <<>>)
           ELSE IF PutMissingFields(request)
           THEN Answer(ErrorResponse(400, "Missing id or status"), submissions, <<>>)
           ELSE LET u == UpdateAsServiceRole(request.id[1], request.status[1], date)
                IN  IF u.ok
                    THEN Answer([status |-> 200,
                                 body |-> [kind |-> "submission",
                                           submission |->
                                             u.rows[RowIndex(u.rows, request.id[1])]]],
                                u.rows, <<"update">>)
                    ELSE Answer(ErrorResponse(500, "exception"), u.rows, <<"update">>)
      ELSE Answer(ErrorResponse(405, "Method not allowed"), submissions, <<>>)

(***************************************************************************)
(* The statements and requests the table and the admin handler are run on. *)
(***************************************************************************)
AdminKey == <<"s">>

AdminKeys == {Undefined, Some(<<>>), Some(AdminKey)}

\* Authorization headers other than 'Bearer <the key>'
OtherHeaders ==
  {Undefined, Some(Bearer(<<"x">>)), Some(AdminKey), Some(Bearer(<<>>))}

\* a status that is no label of submission_status
Archived == "archived"

StatusColumns ==
  {NotGiven, Given(Null)}
    \cup {Given(Some(l)) : l \in submission_status \cup {Archived}}

UserIdColumns ==
  {NotGiven, Given(Null)} \cup {Given(Some(u)) : u \in Users}

\* the INSERT statements of a signed-in user: a statement for another user
\* (or for none) leaves status out
InsertStatements ==
  {st \in [uid : Users, user_id : {Null} \cup {Some(u) : u \in Users},
           email : Emails, status : StatusColumns] :
     /\ st.user_id = Some(st.uid) \/ st.status = NotGiven
     /\ st.email = EmailOf(st.uid)}

\* the INSERT statements of the submission form: the signed-in user's id
\* and the email address typed into the form
FormStatements ==
  [uid : Users, user_id : {Some(u) : u \in Users}, email : Emails,
   status : {NotGiven}]

\* the UPDATE statements of a signed-in user: SET names at most one of the
\* columns
UpdateStatements ==
  {st \in [uid : Users, id : 1..MaxSubs, user_id : UserIdColumns,
           status : StatusColumns,
           book_topic : {NotGiven} \cup {Given(Some(t)) : t \in Topics}] :
     Cardinality({c \in {st.user_id, st.status, st.book_topic} : c.given}) <= 1}

\* UPDATE statements that set book_topic
TopicStatements ==
  {st \in UpdateStatements : st.book_topic.given}

AdminRequestOf(method, authorization, parses, id, status) ==
  [handler |-> "admin", method |-> method, authorization |-> authorization,
   parses |-> parses, id |-> id, status |-> status]

AdminPutBodies ==
  {AdminRequestOf("PUT", Some(Bearer(AdminKey)), TRUE, id, status) :
     id \in {Undefined} \cup {Some(i) : i \in 1..MaxSubs},
     status \in {Undefined} \cup {Some(l) : l \in submission_status \cup {Archived}}}

AdminRequests ==
  AdminPutBodies
    \cup {AdminRequestOf(m, Some(Bearer(AdminKey)), TRUE, Undefined, Undefined) :
            m \in {"OPTIONS", "GET", "POST", "DELETE"}}
    \cup {AdminRequestOf("PUT", Some(Bearer(AdminKey)), FALSE, Undefined, Undefined)}
    \cup {AdminRequestOf(m, h, TRUE, Undefined, Undefined) :
            m \in {"OPTIONS", "GET"}, h \in OtherHeaders}
    \cup {AdminRequestOf("PUT", h, TRUE, Some(1), Some("completed")) :
            h \in OtherHeaders}

DbResult(ok) == [status |-> 0, body |-> [kind |-> "db", ok |-> ok]]

DbRows(rows) == [status |-> 0, body |-> [kind |-> "rows", rows |-> rows]]

InitStore ==
  /\ env \in [hal9Token : {Undefined}, adminKey : AdminKeys]
  /\ Idle

\* one invocation of the admin handler
AdminRequest ==
  \E request \in AdminRequests, date \in {now, now + 1} :
    /\ req = NoRequest
    /\ req' = request
    /\ LET a == AdminHandler(request, date)
       IN  /\ resp' = a.resp
           /\ submissions' = a.rows
           /\ dbOps' = a.ops
    /\ notices' = <<>>
    /\ UNCHANGED <<env, calls, now, users, schema, wizard>>

\* the request record of a statement of a signed-in user
ClientStatement(op, uid, user_id, email, set_user_id, id, book_topic, status,
                dispatch) ==
  [handler |-> "client", op |-> op, uid |-> uid, user_id |-> user_id,
   email |-> email, set_user_id |-> set_user_id, id |-> id,
   book_topic |-> book_topic, status |-> status, dispatch |-> dispatch]

\* the INSERT statement st, whose trigger meets `outcome`
Insert(st, outcome) ==
  /\ req = NoRequest
  /\ Len(submissions) < MaxSubs
  /\ req' = ClientStatement("insert", st.uid, st.user_id, st.email, NotGiven, 0,
                            Given(Some("t1")), st.status, outcome)
  /\ LET r == InsertSubmission(st.uid, st.user_id, st.email, Some("t1"),
                               st.status, outcome)
     IN  /\ resp' = DbResult(r.ok)
         /\ submissions' = r.rows
         /\ dbOps' = <<"insert">>
         /\ notices' = r.notices
  /\ UNCHANGED <<env, calls, now, users, schema, wizard>>

\* the UPDATE statement st
Update(st) ==
  /\ req = NoRequest
  /\ req' = ClientStatement("update", st.uid, Null, "", st.user_id, st.id,
                            st.book_topic, st.status, "none")
  /\ LET r == UpdateOwnSubmission(st.uid, st.id, st.user_id, st.status,
                                  st.book_topic)
     IN  /\ resp' = DbResult(r.ok)
         /\ submissions' = r.rows
         /\ dbOps' = <<"update">>
  /\ notices' = <<>>
  /\ UNCHANGED <<env, calls, now, users, schema, wizard>>

\* a signed-in user inserts a submission through the database API
ClientInsert ==
  \E st \in InsertStatements, outcome \in DispatchOutcomes : Insert(st, outcome)

\* a signed-in user updates a submission through the database API
ClientUpdate == \E st \in UpdateStatements : Update(st)

\* the database clock advances
Tick ==
  /\ req = NoRequest
  /\ now < MaxTime
  /\ now' = now + 1
  /\ UNCHANGED <<env, req, calls, resp, submissions, dbOps, notices, users,
                 schema, wizard>>

NextStore == AdminRequest \/ ClientInsert \/ ClientUpdate \/ Tick \/ Return

SpecStore == InitStore /\ [][NextStore]_vars

(***************************************************************************)
(* The life of a row: the store with the statements that could remove one. *)
(***************************************************************************)
InitLifecycle ==
  /\ env \in [hal9Token : {Undefined}, adminKey : {Some(AdminKey)}]
  /\ Idle

\* a signed-in user tries to delete a submission through the database API;
\* whether the role holds the DELETE privilege decides only if the
\* statement is refused or deletes no row
ClientDelete ==
  \E uid \in Users, id \in 1..MaxSubs, granted \in BOOLEAN :
    /\ req = NoRequest
    /\ req' = ClientStatement("delete", uid, Null, "", NotGiven, id, NotGiven,
                              NotGiven, "none")
    /\ resp' = DbResult(granted)
    /\ submissions' = DeleteOwnSubmission(uid, id).rows
    /\ dbOps' = <<"delete">>
    /\ notices' = <<>>
    /\ UNCHANGED <<env, calls, now, users, schema, wizard>>

\* an account is deleted (by the auth service or from the dashboard)
DeleteUser ==
  \E uid \in users :
    /\ req = NoRequest
    /\ LET d == DeleteUserCascade(uid)
       IN  /\ users' = d.users
           /\ submissions' = d.rows
    /\ UNCHANGED <<env, req, calls, resp, now, dbOps, notices, schema, wizard>>

NextLifecycle ==
  AdminRequest \/ ClientInsert \/ ClientUpdate \/ ClientDelete \/ DeleteUser
    \/ Tick \/ Return

SpecLifecycle == InitLifecycle /\ [][NextLifecycle]_vars

(***************************************************************************)
(* The migrations, applied one after the other to a database that users    *)
(* are signed in to.                                                       *)
(***************************************************************************)
InitMigrations ==
  /\ env \in [hal9Token : {Undefined}, adminKey : {Undefined}]
  /\ req = NoRequest
  /\ calls = <<>>
  /\ resp = NoResponse
  /\ submissions = <<>>
  /\ now = 0
  /\ dbOps = <<>>
  /\ notices = <<>>
  /\ users = Users
  /\ schema \in SchemasBefore
  /\ wizard = NoWizard

\* supabase db push: the next migration of the directory
ApplyMigration ==
  /\ req = NoRequest
  /\ schema.applied < NumMigrations
  /\ schema' = Migrate(schema)
  /\ UNCHANGED <<env, req, calls, resp, submissions, now, dbOps, notices, users,
                 wizard>>

\* the submission form inserts a row
FormInsert == \E st \in FormStatements : Insert(st, "queued")

\* a signed-in user changes the topic of a submission
TopicUpdate == \E st \in TopicStatements : Update(st)

\* a signed-in user reads the submissions (the dashboard)
ClientSelect ==
  \E uid \in Users :
    /\ req = NoRequest
    /\ req' = ClientStatement("select", uid, Null, "", NotGiven, 0, NotGiven,
                              NotGiven, "none")
    /\ resp' = DbRows(SelectSubmissions(uid))
    /\ dbOps' = <<"select">>
    /\ notices' = <<>>
    /\ UNCHANGED <<env, calls, submissions, now, users, schema, wizard>>

\* a signed-in user reads the users table
ClientSelectUsers ==
  \E uid \in Users :
    /\ req = NoRequest
    /\ req' = ClientStatement("select users", uid, Null, "", NotGiven, 0,
                              NotGiven, NotGiven, "none")
    /\ resp' = DbRows(SelectUsers(uid))
    /\ dbOps' = <<"select">>
    /\ notices' = <<>>
    /\ UNCHANGED <<env, calls, submissions, now, users, schema, wizard>>

NextMigrations ==
  ApplyMigration \/ FormInsert \/ TopicUpdate \/ ClientSelect
    \/ ClientSelectUsers \/ Return

SpecMigrations == InitMigrations /\ [][NextMigrations]_vars

(***************************************************************************)
(* The book wizard, src/components/AIBookGenerator.tsx: the generation of  *)
(* the chapters.  generateContent is the call of the useBookGeneration     *)
(* hook; the component handles a result, a null and an exception, and the  *)
(* model lets every call end in any of the three.  State updates are the   *)
(* functional ones of the component: each is applied to the state that the *)
(* updates before it have made.                                            *)
(***************************************************************************)
\* the chapter a generateContent call returns for chapter_number n
ChapterResult(n) == [chapter_number |-> n]

\* what a generateContent call ends in
Outcomes == {"result", "null", "throw"}

\* generateChapterContent(chapterNumber) up to its await: the guard on
\* tocData and generatedContent, 'Chapter data not found' for a number
\* outside the outline, else generatingChapters gets the number and the
\* call starts
StartChapter(w, n) ==
  IF ~(w.tocData /\ w.generatedContent) THEN w
  ELSE IF n > w.toc
  THEN [w EXCEPT !.error = ChapterError(n), !.generatingChapters = @ \ {n}]
  ELSE [w EXCEPT !.pending[n] = @ + 1,
                 !.generatingChapters = @ \cup {n}]

RECURSIVE StartChapters(_, _)
\* tocData.toc.map((_, index) => generateChapterContent(index + 1)): the
\* calls for the chapters 1..n are started one after the other, each up to
\* its await
StartChapters(w, n) ==
  IF n = 0 THEN w ELSE StartChapter(StartChapters(w, n - 1), n)

\* an update computed from the generatedContent of the render in which the
\* chapters were requested: { ...generatedContent, chapters: {
\* ...generatedContent.chapters, [chapterNumber]: result } }
StoreChapter_FromSnapshot(w, n, result) ==
  LET kept == IF w.all THEN DOMAIN w.chapters \cap w.before ELSE DOMAIN w.chapters
  IN  [k \in kept \cup {n} |-> IF k = n THEN result ELSE w.chapters[k]]

\* setGeneratedContent(prev => ({ ...prev, chapters: { ...prev.chapters,
\* [chapterNumber]: result } }))
StoreChapter(w, n, result) ==
  [k \in DOMAIN w.chapters \cup {n} |-> IF k = n THEN result ELSE w.chapters[k]]

\* a generateChapterContent that takes the number out of generatingChapters
\* at the end of its try block
SettleChapter_DeleteInTry(w, n, outcome, result) ==
  [w EXCEPT
     !.chapters = IF outcome = "result" THEN StoreChapter(w, n, result) ELSE @,
     !.error = IF outcome = "throw" THEN ChapterError(n) ELSE @,
     !.generatingChapters = IF outcome = "throw" THEN @ ELSE @ \ {n},
     !.pending[n] = @ - 1,
     !.succeeded = IF w.all /\ outcome = "result" THEN @ \cup {n} ELSE @]

\* generateChapterContent(chapterNumber) after its await: if (result) the
\* chapter is stored, the catch sets the error, and finally takes the
\* number out of generatingChapters
SettleChapter(w, n, outcome, result) ==
  [w EXCEPT
     !.chapters = IF outcome = "result" THEN StoreChapter(w, n, result) ELSE @,
     !.error = IF outcome = "throw" THEN ChapterError(n) ELSE @,
     !.generatingChapters = @ \ {n},
     !.pending[n] = @ - 1,
     !.succeeded = IF w.all /\ outcome = "result" THEN @ \cup {n} ELSE @]

InitWizard ==
  /\ env \in [hal9Token : {Undefined}, adminKey : {Undefined}]
  /\ Idle

\* the outline arrives: setTocData(data) and setGeneratedContent({ toc,
\* chapters: {}, stats })
TocGenerated ==
  \E n \in 1..MaxToc :
    /\ ~wizard.tocData
    /\ wizard' = [wizard EXCEPT !.tocData = TRUE, !.generatedContent = TRUE,
                                !.toc = n]
    /\ UNCHANGED <<env, req, calls, resp, submissions, now, dbOps, notices, users, schema>>

\* the button of one chapter, disabled while generatingChapters has the
\* chapter: generateChapterContent(activeChapter)
GenerateChapter ==
  \E n \in 1..MaxToc :
    /\ wizard.tocData
    /\ n \notin wizard.generatingChapters
    /\ wizard' = StartChapter(wizard, n)
    /\ UNCHANGED <<env, req, calls, resp, submissions, now, dbOps, notices, users, schema>>

\* the button of all chapters: generateAllContent
GenerateAllContent ==
  /\ wizard.tocData
  /\ ~wizard.all
  /\ wizard' = [StartChapters(wizard, wizard.toc) EXCEPT
                  !.all = TRUE,
                  !.before = DOMAIN wizard.chapters,
                  !.succeeded = {}]
  /\ UNCHANGED <<env, req, calls, resp, submissions, now, dbOps, notices, users, schema>>

\* a generateContent call ends and its generateChapterContent resumes
ChapterResponse ==
  \E n \in 1..MaxToc, outcome \in Outcomes :
    /\ wizard.pending[n] > 0
    /\ wizard' = SettleChapter(wizard, n, outcome, ChapterResult(n))
    /\ UNCHANGED <<env, req, calls, resp, submissions, now, dbOps, notices, users, schema>>

NextWizard ==
  TocGenerated \/ GenerateChapter \/ GenerateAllContent \/ ChapterResponse

SpecWizard == InitWizard /\ [][NextWizard]_vars

(***************************************************************************)
(* The book wizard: its steps, the outline request and the PDF request.    *)
(*                                                                         *)
(* A handler of the component reads currentStep, tocData and               *)
(* generatedContent of the render it was created in, and an async handler  *)
(* that resumes after its await still holds those values: nextStep() at    *)
(* the end of generateTOC adds one to the step the request was started on. *)
(* A click is handled by the handler of the latest render.  `loading` of   *)
(* the useBookGeneration hook, which disables some of the buttons, is not  *)
(* part of the component; the model does not let it disable anything.      *)
(***************************************************************************)
totalSteps == 5

\* setCurrentStep(step => step + 1), an update from the step the wizard is
\* on when the request resolves
nextStep_FromState(w, currentStep) ==
  IF w.currentStep < totalSteps THEN [w EXCEPT !.currentStep = @ + 1] ELSE w

\* a nextStep without the test of totalSteps
nextStep_NoGuard(w, currentStep) == [w EXCEPT !.currentStep = currentStep + 1]

\* nextStep of the render whose currentStep is `currentStep`
nextStep(w, currentStep) ==
  IF currentStep < totalSteps
  THEN [w EXCEPT !.currentStep = currentStep + 1]
  ELSE w

\* previousStep of the render whose currentStep is `currentStep`
previousStep(w, currentStep) ==
  IF currentStep > 1
  THEN [w EXCEPT !.currentStep = currentStep - 1]
  ELSE w

\* setError('Please fill in all required fields')
FieldsError == [kind |-> "fields", chapter |-> 0]

\* setError(err.message) of generateTOC
TocError == [kind |-> "toc", chapter |-> 0]

\* setError('Failed to generate PDF: No chapters generated yet. ...')
NoChaptersError == [kind |-> "no chapters", chapter |-> 0]

\* setError('Failed to generate PDF: ' + err.message) for an exception of
\* generatePDF
PdfError == [kind |-> "pdf", chapter |-> 0]

\* what the fetch of generateTOC ends in: a 2xx response with an outline, a
\* response that is not ok, a rejected fetch
TocOutcomes == {"ok", "error", "throw"}

\* generateTOC up to its await: the required fields, isGenerating, and the
\* request, which remembers the step of the render it was started from
StartTOC(w) ==
  IF ~w.fields THEN [w EXCEPT !.error = FieldsError]
  ELSE [w EXCEPT !.isGenerating = TRUE,
                 !.error = NoError,
                 !.tocCalls = Append(@, [currentStep |-> w.currentStep])]

\* a generateTOC that calls nextStep() in its finally block
SettleTOC_AlwaysNext(w, i, outcome, k) ==
  LET call == w.tocCalls[i]
      done == [w EXCEPT
                 !.tocCalls = SubSeq(@, 1, i - 1) \o SubSeq(@, i + 1, Len(@)),
                 !.isGenerating = FALSE]
  IN  IF outcome = "ok"
      THEN nextStep([done EXCEPT !.tocData = TRUE,
                                 !.toc = k,
                                 !.generatedContent = TRUE,
                                 !.chapters = NoStoredChapters,
                                 !.pdfUrl = FALSE],
                    call.currentStep)
      ELSE nextStep([done EXCEPT !.error = TocError], call.currentStep)

\* generateTOC after its await, for the request i of tocCalls: an outline
\* of k sections is stored with a generatedContent that has no chapter and
\* no pdfUrl, and nextStep() follows; a response that is not ok and a
\* rejected fetch set the error; finally clears isGenerating
SettleTOC(w, i, outcome, k) ==
  LET call == w.tocCalls[i]
      done == [w EXCEPT
                 !.tocCalls = SubSeq(@, 1, i - 1) \o SubSeq(@, i + 1, Len(@)),
                 !.isGenerating = FALSE]
  IN  IF outcome = "ok"
      THEN nextStep([done EXCEPT !.tocData = TRUE,
                                 !.toc = k,
                                 !.generatedContent = TRUE,
                                 !.chapters = NoStoredChapters,
                                 !.pdfUrl = FALSE],
                    call.currentStep)
      ELSE [done EXCEPT !.error = TocError]

\* a button that is never disabled
NeverDisabled(w) == FALSE

\* disabled={isGenerating} of 'Regenerate All'
RegenerateDisabled(w) == w.isGenerating

\* a generateBookPDF that sends whatever chapters there are
StartPDF_NoCheck(w) ==
  IF ~(w.generatedContent /\ w.tocData) THEN w
  ELSE [w EXCEPT !.pdfCalls = Append(@, [chapters |-> w.chapters])]

\* generateBookPDF up to its await: the chapters of generatedContent are
\* the chapters of the request
StartPDF(w) ==
  IF ~(w.generatedContent /\ w.tocData) THEN w
  ELSE IF DOMAIN w.chapters = {} THEN [w EXCEPT !.error = NoChaptersError]
  ELSE [w EXCEPT !.pdfCalls = Append(@, [chapters |-> w.chapters])]

\* generateBookPDF after its await: if (result) the pdfUrl is stored in the
\* generatedContent there is by then
SettlePDF(w, outcome) ==
  LET done == [w EXCEPT !.pdfCalls = Tail(@)]
  IN  IF outcome = "result" THEN [done EXCEPT !.pdfUrl = w.generatedContent]
      ELSE IF outcome = "throw" THEN [done EXCEPT !.error = PdfError]
      ELSE done

\* the PDF requests in flight at a time
MaxPdfCalls == 1

\* everything but the wizard
pageVars == <<env, req, calls, resp, submissions, now, dbOps, notices, users, schema>>

\* handleInputChange on step 1: a required field is filled in or emptied
EditFields ==
  /\ wizard.currentStep = 1
  /\ wizard' = [wizard EXCEPT !.fields = ~@]
  /\ UNCHANGED pageVars

\* 'Generate Structure', the lower right button on step 1
GenerateStructure ==
  /\ wizard.currentStep = 1
  /\ wizard.fields
  /\ ~wizard.isGenerating
  /\ wizard' = StartTOC(wizard)
  /\ UNCHANGED pageVars

\* 'Regenerate All' on step 2: regenerateTOC
RegenerateAll ==
  /\ wizard.currentStep = 2
  /\ ~RegenerateDisabled(wizard)
  /\ wizard' = StartTOC(wizard)
  /\ UNCHANGED pageVars

\* the fetch of an outline request ends and its generateTOC resumes
OutlineResponse ==
  \E i \in 1..Len(wizard.tocCalls), outcome \in TocOutcomes, k \in 0..MaxToc :
    /\ wizard' = SettleTOC(wizard, i, outcome, k)
    /\ UNCHANGED pageVars

\* 'Next Step' / 'Complete', the lower right button on the steps 2 to 5
NextStep ==
  /\ wizard.currentStep # 1
  /\ ~wizard.isGenerating
  /\ wizard' = nextStep(wizard, wizard.currentStep)
  /\ UNCHANGED pageVars

\* 'Previous', disabled on step 1
PreviousStep ==
  /\ wizard.currentStep # 1
  /\ wizard' = previousStep(wizard, wizard.currentStep)
  /\ UNCHANGED pageVars

\* the steps of the wizard and its outline requests
NextSteps ==
  EditFields \/ GenerateStructure \/ RegenerateAll \/ OutlineResponse
    \/ NextStep \/ PreviousStep

SpecSteps == InitWizard /\ [][NextSteps]_vars

\* 'Generate Chapter' on step 3
ChapterButton == wizard.currentStep = 3 /\ GenerateChapter

\* the generateContent calls in flight for one chapter at the time 'Generate
\* All Content' is clicked
MaxPending == 1

\* 'Generate All Content' on step 3: generateAllContent, as often as the
\* button is clicked
AllContentButton ==
  /\ wizard.currentStep = 3
  /\ wizard.tocData
  /\ \A n \in 1..wizard.toc : wizard.pending[n] < MaxPending
  /\ wizard' = StartChapters(wizard, wizard.toc)
  /\ UNCHANGED pageVars

\* the steps, the outline requests and the chapter requests
NextChapters ==
  EditFields \/ GenerateStructure \/ RegenerateAll \/ OutlineResponse
    \/ NextStep \/ PreviousStep
    \/ ChapterButton \/ AllContentButton \/ ChapterResponse

SpecChapters == InitWizard /\ [][NextChapters]_vars

\* 'Generate Complete PDF' on step 4, disabled while generatedContent has
\* no chapter
GenerateBookPDF ==
  /\ wizard.currentStep = 4
  /\ wizard.generatedContent
  /\ DOMAIN wizard.chapters # {}
  /\ Len(wizard.pdfCalls) < MaxPdfCalls
  /\ wizard' = StartPDF(wizard)
  /\ UNCHANGED pageVars

\* a generatePDF call ends and its generateBookPDF resumes
PdfResponse ==
  \E outcome \in Outcomes :
    /\ wizard.pdfCalls # <<>>
    /\ wizard' = SettlePDF(wizard, outcome)
    /\ UNCHANGED pageVars

NextBook ==
  EditFields \/ GenerateStructure \/ RegenerateAll \/ OutlineResponse
    \/ NextStep \/ PreviousStep
    \/ ChapterButton \/ AllContentButton \/ ChapterResponse
    \/ GenerateBookPDF \/ PdfResponse

SpecBook == InitWizard /\ [][NextBook]_vars

(***************************************************************************)
(* The cover handler, unnamed/part_001.                                    *)
(*                                                                         *)
(* createImagePrompt (line 148) builds a string that nothing reads, and    *)
(* cannot throw on string arguments: it is left out.                       *)
(***************************************************************************)
S_modern == <<"m", "o", "d", "e", "r", "n">>

S_classic == <<"c", "l", "a", "s", "s", "i", "c">>

S_minimalist == <<"m", "i", "n", "i", "m", "a", "l", "i", "s", "t">>

S_bold == <<"b", "o", "l", "d">>

S_professional == <<"p", "r", "o", "f", "e", "s", "s", "i", "o", "n", "a", "l">>

S_vibrant == <<"v", "i", "b", "r", "a", "n", "t">>

S_monochrome == <<"m", "o", "n", "o", "c", "h", "r", "o", "m", "e">>

S_warm == <<"w", "a", "r", "m">>

S_cool == <<"c", "o", "o", "l">>

S_constructor == <<"c", "o", "n", "s", "t", "r", "u", "c", "t", "o", "r">>

S_undefined == <<"u", "n", "d", "e", "f", "i", "n", "e", "d">>

\* a character outside Latin-1 (a code point above 255), as one character
WideChar == "U+4E2D"

\* btoa: throws InvalidCharacterError on a character outside Latin-1, and
\* otherwise yields four base64 characters (written "b") for every three
\* characters of its argument, the last group padded
btoa(s) ==
  IF \E i \in 1..Len(s) : s[i] = WideChar
  THEN [threw |-> TRUE, value |-> <<>>]
  ELSE [threw |-> FALSE,
        value |-> [i \in 1..(4 * ((Len(s) + 2) \div 3)) |-> "b"]]

\* const palettes = {...}
palettes ==
  [professional |-> <<<<"#", "2", "5", "6", "3", "e", "b">>,
        <<"#", "1", "e", "4", "0", "a", "f">>,
        <<"#", "3", "b", "8", "2", "f", "6">>,
        <<"#", "6", "0", "a", "5", "f", "a">>,
        <<"#", "9", "3", "c", "5", "f", "d">>>>,
   vibrant |-> <<<<"#", "d", "c", "2", "6", "2", "6">>,
        <<"#", "e", "a", "5", "8", "0", "c">>,
        <<"#", "d", "9", "7", "7", "0", "6">>,
        <<"#", "6", "5", "a", "3", "0", "d">>,
        <<"#", "0", "5", "9", "6", "6", "9">>>>,
   monochrome |-> <<<<"#", "3", "7", "4", "1", "5", "1">>,
        <<"#", "4", "b", "5", "5", "6", "3">>,
        <<"#", "6", "b", "7", "2", "8", "0">>,
        <<"#", "9", "c", "a", "3", "a", "f">>,
        <<"#", "d", "1", "d", "5", "d", "b">>>>,
   warm |-> <<<<"#", "d", "c", "2", "6", "2", "6">>,
        <<"#", "e", "a", "5", "8", "0", "c">>,
        <<"#", "f", "5", "9", "e", "0", "b">>,
        <<"#", "e", "a", "b", "3", "0", "8">>,
        <<"#", "8", "4", "c", "c", "1", "6">>>>,
   cool |-> <<<<"#", "0", "8", "9", "1", "b", "2">>,
        <<"#", "0", "2", "8", "4", "c", "7">>,
        <<"#", "2", "5", "6", "3", "e", "b">>,
        <<"#", "7", "c", "3", "a", "e", "d">>,
        <<"#", "9", "3", "3", "3", "e", "a">>>>]

\* property names every object inherits from Object.prototype: under such a
\* name palettes[colorScheme] is a function
ObjectPrototypeNames == {S_constructor}

\* palettes[colorScheme] || palettes.professional
getColorPalette(colorScheme, designStyle) ==
  IF colorScheme = S_professional THEN [kind |-> "array", colors |-> palettes.professional]
  ELSE IF colorScheme = S_vibrant THEN [kind |-> "array", colors |-> palettes.vibrant]
  ELSE IF colorScheme = S_monochrome THEN [kind |-> "array", colors |-> palettes.monochrome]
  ELSE IF colorScheme = S_warm THEN [kind |-> "array", colors |-> palettes.warm]
  ELSE IF colorScheme = S_cool THEN [kind |-> "array", colors |-> palettes.cool]
  ELSE IF colorScheme \in ObjectPrototypeNames THEN [kind |-> "function", colors |-> <<>>]
  ELSE [kind |-> "array", colors |-> palettes.professional]

HexDigits ==
  <<"0", "1", "2", "3", "4", "5", "6", "7", "8", "9", "a", "b", "c", "d", "e", "f">>

HexValue(c) == (CHOOSE d \in 1..16 : HexDigits[d] = c) - 1

\* parseInt(hexColor.slice(from, from + 2), 16), from counted from 0
ParseHexPair(hexColor, from) ==
  16 * HexValue(hexColor[from + 1]) + HexValue(hexColor[from + 2])

\* brightness > 128 ? '#000000' : '#ffffff', with
\* brightness = (r * 299 + g * 587 + b * 114) / 1000
getContrastColor(hexColor) ==
  LET r == ParseHexPair(hexColor, 1)
      g == ParseHexPair(hexColor, 3)
      b == ParseHexPair(hexColor, 5)
  IN  IF r * 299 + g * 587 + b * 114 > 128 * 1000
      THEN <<"#", "0", "0", "0", "0", "0", "0">>
      ELSE <<"#", "f", "f", "f", "f", "f", "f">>

\* String.prototype.split(' ')
RECURSIVE SplitOnSpace(_)
SplitOnSpace(s) ==
  IF \A i \in 1..Len(s) : s[i] # " " THEN <<s>>
  ELSE LET k == CHOOSE i \in 1..Len(s) : s[i] = " " /\ \A j \in 1..(i - 1) : s[j] # " "
       IN  <<SubSeq(s, 1, k - 1)>> \o SplitOnSpace(SubSeq(s, k + 1, Len(s)))

\* the loop of wrapText over the remaining words
RECURSIVE WrapLines(_, _, _, _)
WrapLines(words, currentLine, lines, maxLength) ==
  IF words = <<>>
  THEN IF currentLine # <<>> THEN Append(lines, currentLine) ELSE lines
  ELSE IF Len(currentLine \o Head(words)) <= maxLength
  THEN WrapLines(Tail(words),
                 currentLine \o (IF currentLine # <<>> THEN Sp ELSE <<>>) \o Head(words),
                 lines, maxLength)
  ELSE WrapLines(Tail(words), Head(words),
                 IF currentLine # <<>> THEN Append(lines, currentLine) ELSE lines,
                 maxLength)

\* the first line only: lines[0] || text.substring(0, maxLength)
wrapText(text, maxLength) ==
  IF Len(text) <= maxLength THEN text
  ELSE LET lines == WrapLines(SplitOnSpace(text), <<>>, <<>>, maxLength)
       IN  IF lines # <<>> /\ lines[1] # <<>> THEN lines[1]
           ELSE Substring(text, maxLength)

\* the decorative elements of a design style; colors[k] of the source is
\* colors[k + 1] here
getDesignElements(designStyle, colors) ==
  IF designStyle = S_modern
  THEN Join(<<Words(4), colors[3], Words(5), colors[3], Words(6), colors[4], Words(1)>>, Sp)
  ELSE IF designStyle = S_classic
  THEN Join(<<Words(7), colors[3], Words(8), colors[3], Words(2)>>, Sp)
  ELSE IF designStyle = S_minimalist
  THEN Join(<<Words(6), colors[3], Words(2)>>, Sp)
  ELSE IF designStyle = S_bold
  THEN Join(<<Words(3), colors[3], Words(4), colors[4], Words(6), colors[5], Words(1)>>, Sp)
  ELSE <<>>

\* the title line of the placeholder
TitleLineLength == 20

DataUrlPrefix == <<"d", "a", "t", "a", ":", "i", "m", "a", "g", "e", "/", "s", "v", "g", "+", "x", "m", "l", ";", "b", "a", "s", "e", "6", "4", ",">>

\* generatePlaceholderCover: colors[0] of a function is undefined and
\* getContrastColor(undefined) throws a TypeError; btoa throws on a
\* character outside Latin-1
generatePlaceholderCover(title, author, designStyle, colorScheme) ==
  LET palette == getColorPalette(colorScheme, designStyle)
  IN  IF palette.kind # "array" THEN [threw |-> TRUE, value |-> <<>>]
      ELSE LET colors == palette.colors
               primaryColor == colors[1]
               secondaryColor == colors[2]
               textColor == getContrastColor(primaryColor)
               svg == Sp \o Join(<<Words(9), primaryColor, Words(3), secondaryColor,
                                   Words(8)>>, Sp)
                         \o Sp \o getDesignElements(designStyle, colors)
                         \o Sp \o Join(<<Words(9), textColor, Words(5),
                                         wrapText(title, TitleLineLength),
                                         Words(9), textColor, Words(5),
                                         <<"w">>, author,
                                         Words(10), textColor, Words(3)>>, Sp)
                         \o Sp
               encoded == btoa(svg)
           IN  IF encoded.threw THEN [threw |-> TRUE, value |-> <<>>]
               ELSE [threw |-> FALSE, value |-> DataUrlPrefix \o encoded.value]

\* the request sent to the upstream cover endpoint, .../proxy/cover
CoverCall(request) ==
  [endpoint |-> "cover",
   body |-> [title |-> request.title[1], author |-> request.author[1],
             book_description |-> request.book_description[1],
             style_prompt |-> request.style_prompt,
             color_scheme |-> OrDefault(request.color_scheme, S_professional),
             design_style |-> OrDefault(request.design_style, S_modern)]]

DescriptionPrefix == 100

CoverResponse(cover_url, design_description, color_palette) ==
  [status |-> 200,
   body |-> [kind |-> "cover", cover_url |-> cover_url,
             design_description |-> design_description,
             color_palette |-> color_palette]]

\* JSON.stringify leaves a property whose value is a function out
PaletteProperty(palette) ==
  IF palette.kind = "array" THEN Some(palette.colors) ELSE Undefined

\* the fallback of generateBookCoverWithHAL9 (lines 187-195); what it throws
\* reaches the catch of the handler (lines 124-140)
CoverFallback(request) ==
  LET title == request.title[1]
      author == request.author[1]
      color_scheme == OrDefault(request.color_scheme, S_professional)
      design_style == OrDefault(request.design_style, S_modern)
      placeholder == generatePlaceholderCover(title, author, design_style, color_scheme)
  IN  IF placeholder.threw
      THEN ErrorResponse(500, "exception")
      ELSE CoverResponse(
             placeholder.value,
             Join(<<Words(1), design_style, Words(5), <<"\"">> \o title \o <<"\"">>,
                    Words(1), author \o <<".">>, Words(3), color_scheme, Words(8),
                    Substring(request.book_description[1], DescriptionPrefix)
                      \o <<".", ".", ".">>>>, Sp),
             PaletteProperty(getColorPalette(color_scheme, design_style)))

\* generateBookCoverWithHAL9 once the fetch has been answered by `reply`
generateBookCoverAfterFetch(request, reply) ==
  LET title == request.title[1]
      author == request.author[1]
      color_scheme == OrDefault(request.color_scheme, S_professional)
      design_style == OrDefault(request.design_style, S_modern)
      imageUrl == IF ~FalsyStr(reply.cover_url) THEN reply.cover_url
                  ELSE reply.image_url
  IN  IF reply.kind = "object" /\ reply.ok /\ ~FalsyStr(imageUrl)
      THEN CoverResponse(
             imageUrl[1],
             IF ~FalsyStr(reply.design_description) THEN reply.design_description[1]
             ELSE Join(<<Words(1), design_style, Words(3),
                         <<"\"">> \o title \o <<"\"">>, Words(1), author \o <<".">>,
                         Words(3), color_scheme, Words(7)>>, Sp),
             IF reply.color_palette # Undefined THEN reply.color_palette
             ELSE PaletteProperty(getColorPalette(color_scheme, design_style)))
      ELSE CoverFallback(request)

\* !requestData.title || !requestData.author || !requestData.book_description
CoverMissingFields(request) ==
  FalsyStr(request.title) \/ FalsyStr(request.author)
    \/ FalsyStr(request.book_description)

\* the checks of the handler in the order of lines 59-108; req.json() of a
\* body that is no JSON throws into the catch
CoverAnswersEarly(request, hal9Token) ==
  \/ request.method # "POST"
  \/ FalsyStr(hal9Token)
  \/ ~request.parses
  \/ CoverMissingFields(request)

\* a handler that validates the body before it looks for the credential
CoverEarlyResponse_ValidationFirst(request, hal9Token) ==
  IF request.method = "OPTIONS" THEN OptionsResponse
  ELSE IF request.method # "POST" THEN ErrorResponse(405, "Method not allowed")
  ELSE IF ~request.parses THEN ErrorResponse(500, "exception")
  ELSE IF CoverMissingFields(request) THEN ErrorResponse(400, "Missing required fields")
  ELSE ErrorResponse(500, "HAL9 token not configured")

CoverEarlyResponse(request, hal9Token) ==
  IF request.method = "OPTIONS" THEN OptionsResponse
  ELSE IF request.method # "POST" THEN ErrorResponse(405, "Method not allowed")
  ELSE IF FalsyStr(hal9Token) THEN ErrorResponse(500, "HAL9 token not configured")
  ELSE IF ~request.parses THEN ErrorResponse(500, "exception")
  ELSE ErrorResponse(400, "Missing required fields")

(***************************************************************************)
(* The requests and upstream replies the cover handler is run on.          *)
(***************************************************************************)
\* a title of two lines with a character outside Latin-1 on the second
LongTitle ==
  <<"a", "a", "a", "a", "a", "a", "a", "a", "a", "a", " ", "b", "b", "b", "b", "b", "b", "b", "b", "b">> \o <<" ", WideChar>>

CoverTitles ==
  {Undefined, Some(<<>>), Some(<<"T">>), Some(<<"T", WideChar>>), Some(LongTitle)}

CoverAuthors == {Undefined, Some(<<"A">>), Some(<<WideChar>>)}

CoverDescriptions == {Undefined, Some(<<"d">>)}

ColorSchemes == {Undefined, Some(S_warm), Some(<<"n">>), Some(S_constructor)}

DesignStyles == {Undefined, Some(S_bold), Some(<<"r">>)}

CoverPostBodies ==
  [handler : {"cover"}, method : {"POST"}, parses : {TRUE},
   title : CoverTitles, author : CoverAuthors,
   book_description : CoverDescriptions, style_prompt : {Undefined},
   color_scheme : ColorSchemes, design_style : DesignStyles]

EmptyCoverBody(method, parses) ==
  [handler |-> "cover", method |-> method, parses |-> parses,
   title |-> Undefined, author |-> Undefined, book_description |-> Undefined,
   style_prompt |-> Undefined, color_scheme |-> Undefined,
   design_style |-> Undefined]

CoverRequests ==
  CoverPostBodies
    \cup {EmptyCoverBody(m, p) : m \in {"OPTIONS", "GET", "PUT"}, p \in BOOLEAN}
    \cup {EmptyCoverBody("POST", FALSE)}

CoverUrl == <<"h">>

NoCoverData(kind, ok) ==
  [kind |-> kind, ok |-> ok, cover_url |-> Undefined, image_url |-> Undefined,
   design_description |-> Undefined, color_palette |-> Undefined]

\* a reply is a thrown fetch, or a status (ok: 2xx) with a payload that is
\* not JSON, the JSON null, or a JSON object
CoverReplies ==
  {NoCoverData("throw", FALSE)}
    \cup {NoCoverData(k, ok) : k \in {"badjson", "null", "object"}, ok \in BOOLEAN}
    \cup [kind : {"object"}, ok : {TRUE},
          cover_url : {Undefined, Some(<<>>), Some(CoverUrl)},
          image_url : {Undefined, Some(<<"g">>)},
          design_description : {Undefined, Some(<<"D">>)},
          color_palette : {Undefined, Some(<<<<"#", "0", "0", "0", "0", "0", "0">>>>)}]
    \cup {[NoCoverData("object", FALSE) EXCEPT !.cover_url = Some(CoverUrl)]}

InitCover ==
  /\ env \in [hal9Token : Tokens, adminKey : {Undefined}]
  /\ Idle

\* a handler that fetches a second time when the first fetch has failed
CoverRequest_Retry ==
  \E request \in CoverRequests :
    /\ req = NoRequest
    /\ req' = request
    /\ IF CoverAnswersEarly(request, env.hal9Token)
       THEN /\ calls' = <<>>
            /\ resp' = CoverEarlyResponse(request, env.hal9Token)
       ELSE \E first \in CoverReplies, second \in CoverReplies :
              IF first.kind = "object" /\ first.ok
              THEN /\ calls' = <<[call |-> CoverCall(request), reply |-> first]>>
                   /\ resp' = generateBookCoverAfterFetch(request, first)
              ELSE /\ calls' = <<[call |-> CoverCall(request), reply |-> first],
                                 [call |-> CoverCall(request), reply |-> second]>>
                   /\ resp' = generateBookCoverAfterFetch(request, second)
    /\ UNCHANGED <<env, storeVars>>

\* one invocation of the cover handler
CoverRequest ==
  \E request \in CoverRequests :
    /\ req = NoRequest
    /\ req' = request
    /\ IF CoverAnswersEarly(request, env.hal9Token)
       THEN /\ calls' = <<>>
            /\ resp' = CoverEarlyResponse(request, env.hal9Token)
       ELSE \E reply \in CoverReplies :
              /\ calls' = <<[call |-> CoverCall(request), reply |-> reply]>>
              /\ resp' = generateBookCoverAfterFetch(request, reply)
    /\ UNCHANGED <<env, storeVars>>

NextCover == CoverRequest \/ Return

SpecCover == InitCover /\ [][NextCover]_vars

(***************************************************************************)
(* The email-notification handler, unnamed/part_000.                       *)
(*                                                                         *)
(* A submission of a request body is <<>> when the property is absent or   *)
(* falsy and <<s>> for an object s; the properties of s the templates read *)
(* are optional strings (<<>>: absent or null).  The submission date the   *)
(* templates print is written as one literal word.                         *)
(***************************************************************************)
\* the default of ADMIN_EMAIL: 'info@proofbound.com'
S_AdminEmail == <<"i", "n", "f", "o", "@", "p", "r", "o", "o", "f", "b", "o", "u", "n", "d", ".", "c", "o", "m">>

\* String.prototype.toUpperCase
ToUpperCase(s) ==
  [i \in 1..Len(s) |->
     IF \E k \in 1..26 : LowerLetters[k] = s[i]
     THEN UpperLetters[CHOOSE k \in 1..26 : LowerLetters[k] = s[i]]
     ELSE s[i]]

\* \w of a regular expression
IsWordChar(c) ==
  \/ \E k \in 1..26 : LowerLetters[k] = c \/ UpperLetters[k] = c
  \/ \E k \in 1..10 : Digits[k] = c
  \/ c = "_"

\* book_style.replace('-', ' ').replace(/\b\w/g, l => l.toUpperCase()): the
\* first '-' becomes a space, then the first character of every word is put
\* in upper case
FormatStyle(book_style) ==
  LET dashes == {i \in 1..Len(book_style) : book_style[i] = "-"}
      first == IF dashes = {} THEN 0
               ELSE CHOOSE i \in dashes : \A j \in dashes : i <= j
      spaced == [i \in 1..Len(book_style) |->
                   IF i = first THEN " " ELSE book_style[i]]
  IN  [i \in 1..Len(spaced) |->
         IF IsWordChar(spaced[i]) /\ (i = 1 \/ ~IsWordChar(spaced[i - 1]))
         THEN ToUpperCase(<<spaced[i]>>)[1]
         ELSE spaced[i]]

\* `${x}` of an optional string: 'undefined' when it is absent
Interpolate(o) == OrDefault(o, S_undefined)

\* generateAdminEmailHtml: submission.status.toUpperCase() throws a
\* TypeError when the submission has no status
generateAdminEmailHtml(submission) ==
  IF submission.status = Undefined
  THEN [threw |-> TRUE, value |-> <<>>]
  ELSE [threw |-> FALSE,
        value |->
          Join(<<Words(40), Interpolate(submission.name), Words(2),
                 Interpolate(submission.email), Interpolate(submission.email),
                 Words(3), Interpolate(submission.book_topic)>>, Sp)
            \o (IF FalsyStr(submission.book_style) THEN <<>>
                ELSE Sp \o Words(4) \o Sp \o FormatStyle(submission.book_style[1]))
            \o Sp
            \o Join(<<Words(6), ToUpperCase(submission.status[1]), Words(4),
                      Interpolate(submission.email),
                      Interpolate(submission.book_topic),
                      Interpolate(submission.name),
                      Interpolate(submission.book_topic), Words(30)>>, Sp)]

\* generateCustomerEmailHtml
generateCustomerEmailHtml(submission) ==
  Join(<<Words(40), Interpolate(submission.name), Words(12),
         <<"\"">> \o Interpolate(submission.book_topic) \o <<"\"">>, Words(80),
         Interpolate(submission.book_topic)>>, Sp)
    \o (IF FalsyStr(submission.book_style) THEN <<>>
        ELSE Sp \o Words(1) \o Sp \o FormatStyle(submission.book_style[1]))
    \o Sp \o Words(20)

\* the request sendEmail posts to https://api.resend.com/emails
EmailCall(to, subject, html) ==
  [endpoint |-> "emails", body |-> [to |-> to, subject |-> subject, html |-> html]]

\* what sendEmail returns when its fetch is answered by `reply`: a thrown
\* fetch, a non-2xx status and a 2xx body that is no JSON are failures
sendEmailAfterFetch(reply) ==
  [success |-> reply.kind = "json" /\ reply.ok]

\* if (!RESEND_API_KEY) return { success: false, ... }
EmailNotConfigured(resendKey) == FalsyStr(resendKey)

EmailResponse(adminEmailResult, customerEmailResult) ==
  [status |-> 200,
   body |-> [kind |-> "email", success |-> TRUE,
             adminEmail |-> adminEmailResult,
             customerEmail |-> customerEmailResult]]

\* the handler answers before any sendEmail: method dispatch, a body that
\* is no JSON (500), no submission (400), and the admin template throwing
\* while the arguments of the first sendEmail are evaluated (500)
EmailAnswersEarly(request) ==
  \/ request.method # "POST"
  \/ ~request.parses
  \/ request.submission = Undefined
  \/ generateAdminEmailHtml(request.submission[1]).threw

EmailEarlyResponse(request) ==
  IF request.method = "OPTIONS" THEN OptionsResponse
  ELSE IF request.method # "POST" THEN ErrorResponse(405, "Method not allowed")
  ELSE IF ~request.parses THEN ErrorResponse(500, "exception")
  ELSE IF request.submission = Undefined THEN ErrorResponse(400, "Missing submission data")
  ELSE ErrorResponse(500, "exception")

\* the subjects of the two emails
AdminSubject(submission) == Words(4) \o Sp \o Interpolate(submission.book_topic)

CustomerSubject == Words(9)

(***************************************************************************)
(* The requests and replies the email handler is run on.                   *)
(***************************************************************************)
ResendKeys == {Undefined, Some(<<"r">>)}

EmailSubmissions ==
  [name : {Some(<<"n">>)}, email : {Undefined, Some(<<"e">>)},
   book_topic : {Some(<<"t">>)},
   book_style : {Undefined, Some(<<"h", "o", "w", "-", "t", "o">>)},
   status : {Undefined, Some(<<"p", "e", "n", "d", "i", "n", "g">>)}]

EmailRequestOf(method, parses, submission) ==
  [handler |-> "email", method |-> method, parses |-> parses,
   submission |-> submission]

EmailRequests ==
  {EmailRequestOf("POST", TRUE, Some(s)) : s \in EmailSubmissions}
    \cup {EmailRequestOf("POST", p, Undefined) : p \in BOOLEAN}
    \cup {EmailRequestOf(m, p, Undefined) : m \in {"OPTIONS", "GET", "PUT"}, p \in BOOLEAN}

\* a reply of the email service: a thrown fetch, or a status (ok: 2xx) with
\* a body that is JSON or not
EmailReplies ==
  {[kind |-> "throw", ok |-> FALSE]} \cup [kind : {"json", "text"}, ok : BOOLEAN]

InitEmail ==
  /\ env \in [hal9Token : {Undefined}, adminKey : {Undefined},
              resendKey : ResendKeys, adminEmail : {Undefined, Some(<<"a">>)}]
  /\ Idle

\* one invocation of the email handler: the two sendEmail calls in order
EmailRequest ==
  \E request \in EmailRequests :
    /\ req = NoRequest
    /\ req' = request
    /\ IF EmailAnswersEarly(request)
       THEN /\ calls' = <<>>
            /\ resp' = EmailEarlyResponse(request)
       ELSE IF EmailNotConfigured(env.resendKey)
       THEN /\ calls' = <<>>
            /\ resp' = EmailResponse([success |-> FALSE], [success |-> FALSE])
       ELSE \E adminReply \in EmailReplies, customerReply \in EmailReplies :
              LET submission == request.submission[1]
              IN  /\ calls' =
                       << [call |-> EmailCall(
                                      Some(IF FalsyStr(env.adminEmail)
                                           THEN S_AdminEmail ELSE env.adminEmail[1]),
                                      AdminSubject(submission),
                                      generateAdminEmailHtml(submission).value),
                           reply |-> adminReply],
                          [call |-> EmailCall(
                                      submission.email, CustomerSubject,
                                      generateCustomerEmailHtml(submission)),
                           reply |-> customerReply] >>
                  /\ resp' = EmailResponse(sendEmailAfterFetch(adminReply),
                                           sendEmailAfterFetch(customerReply))
    /\ UNCHANGED <<env, storeVars>>

NextEmail == EmailRequest \/ Return

SpecEmail == InitEmail /\ [][NextEmail]_vars

(***************************************************************************)
(* The deployment test handler, supabase/functions/test-deploy/index.ts.   *)
(***************************************************************************)
TestDeployRequests == [handler : {"test"}, method : {"OPTIONS", "GET", "POST"}]

TestDeployResponse(request) ==
  IF request.method = "OPTIONS" THEN OptionsResponse
  ELSE [status |-> 200, body |-> [kind |-> "test", deployment_test |-> TRUE]]

\* one invocation of the deployment test handler
TestDeployRequest ==
  \E request \in TestDeployRequests :
    /\ req = NoRequest
    /\ req' = request
    /\ calls' = <<>>
    /\ resp' = TestDeployResponse(request)
    /\ UNCHANGED <<env, storeVars>>

(***************************************************************************)
(* All the handlers of one deployment, whose secrets are all unset, all    *)
(* empty or all set.                                                       *)
(***************************************************************************)
HandlerEnvs ==
  {[hal9Token |-> Undefined, adminKey |-> Undefined, resendKey |-> Undefined,
    adminEmail |-> Undefined],
   [hal9Token |-> Some(<<>>), adminKey |-> Some(<<>>), resendKey |-> Some(<<>>),
    adminEmail |-> Some(<<>>)],
   [hal9Token |-> Some(Token), adminKey |-> Some(AdminKey),
    resendKey |-> Some(<<"r">>), adminEmail |-> Some(<<"a">>)]}

InitHandlers ==
  /\ env \in HandlerEnvs
  /\ Idle

NextHandlers ==
  \/ TocRequest
  \/ ContentRequest
  \/ CoverRequest
  \/ EmailRequest
  \/ AdminRequest
  \/ TestDeployRequest
  \/ Return

SpecHandlers == InitHandlers /\ [][NextHandlers]_vars

(***************************************************************************)
(* Reading a response: the notions the properties below are stated in.     *)
(***************************************************************************)
DigitValue(c) == CHOOSE d \in 0..9 : Digits[d + 1] = c

IsDigit(c) == \E d \in 0..9 : Digits[d + 1] = c

RECURSIVE DecimalValue(_)
DecimalValue(s) ==
  IF Len(s) = 0 THEN 0
  ELSE 10 * DecimalValue(SubSeq(s, 1, Len(s) - 1)) + DigitValue(s[Len(s)])

\* s is the decimal numeral of n, without sign or leading zero
IsNumeral(s, n) ==
  /\ Len(s) >= 1
  /\ \A i \in 1..Len(s) : IsDigit(s[i])
  /\ Len(s) > 1 => s[1] # "0"
  /\ DecimalValue(s) = n

\* the low end of a page range "low-high"
LowEstimate(range) ==
  LET dash == CHOOSE i \in 1..Len(range) : range[i] = "-"
  IN  DecimalValue(SubSeq(range, 1, dash - 1))

RECURSIVE SumLow(_)
SumLow(toc) ==
  IF Len(toc) = 0 THEN 0
  ELSE LowEstimate(toc[1].estimated_pages) + SumLow(Tail(toc))

AbsentOrEmpty(o) == o = <<>> \/ Len(o[1]) = 0

\* a POST to the outline handler with a JSON body
TocPost == req.handler = "toc" /\ req.method = "POST" /\ req.parses

TocValidated ==
  /\ TocPost
  /\ ~AbsentOrEmpty(req.title)
  /\ ~AbsentOrEmpty(req.author)
  /\ ~AbsentOrEmpty(req.book_idea)

\* the outline service could not be used: no credential, a fetch that threw,
\* a status outside 2xx, or a payload that is no array
TocUpstreamUnusable ==
  \/ AbsentOrEmpty(env.hal9Token)
  \/ /\ Len(calls) = 1
     /\ \/ calls[1].reply.kind = "throw"
        \/ ~calls[1].reply.ok
        \/ calls[1].reply.kind \in {"badjson", "object"}

\* the outline came from an upstream array of at least one section
TocFromUpstream ==
  /\ TocValidated
  /\ req.num_pages # Undefined
  /\ Len(calls) = 1
  /\ calls[1].reply.kind = "array"
  /\ calls[1].reply.ok
  /\ Len(calls[1].reply.items) >= 1
  /\ \A i \in 1..Len(calls[1].reply.items) : ~calls[1].reply.items[i].null

IsFixedOutline(toc) ==
  /\ Len(toc) = 3
  /\ toc[1].section_name = S_Introduction
  /\ toc[2].section_name = S_Main_Content
  /\ toc[3].section_name = S_Conclusion
  /\ toc[1].estimated_pages = <<"1", "0", "-", "1", "2">>
  /\ toc[2].estimated_pages = <<"4", "0", "-", "5", "0">>
  /\ toc[3].estimated_pages = <<"1", "0", "-", "1", "5">>
  /\ toc[1].section_ideas = <<S_Overview, S_Background, S_Objectives>>
  /\ toc[2].section_ideas = <<S_Core_concepts, S_Key_principles, S_Examples>>
  /\ toc[3].section_ideas = <<S_Summary, S_Key_takeaways, S_Next_steps>>

(***************************************************************************)
(* Properties of the outline handler.                                      *)
(***************************************************************************)
\* C1: a POST to the outline handler whose title, author or book_idea is
\* missing or empty is answered 400, and no upstream call is made for it.
C1_MissingFieldIs400 ==
  (TocPost /\ (AbsentOrEmpty(req.title) \/ AbsentOrEmpty(req.author)
                 \/ AbsentOrEmpty(req.book_idea)))
    => (resp.status = 400 /\ calls = <<>>)

\* the credential is configured and only the idea is empty: 400, no call
C1_Witness ==
  /\ TocPost
  /\ ~AbsentOrEmpty(env.hal9Token)
  /\ ~AbsentOrEmpty(req.title)
  /\ ~AbsentOrEmpty(req.author)
  /\ req.book_idea = Some(<<>>)
  /\ resp.status = 400
  /\ calls = <<>>

\* C4: for a validated outline request that carries num_pages, whenever the
\* upstream cannot be used (no credential, fetch throws, status outside 2xx,
\* payload not an array) the answer is 200 with the fixed three-section
\* outline and total_estimated_pages the decimal numeral of num_pages.
C4_FallbackOutline ==
  (TocValidated /\ req.num_pages # Undefined /\ TocUpstreamUnusable)
    => /\ resp.status = 200
       /\ resp.body.kind = "toc"
       /\ IsFixedOutline(resp.body.toc)
       /\ IsNumeral(resp.body.total_estimated_pages, req.num_pages[1])

\* the upstream answered outside 2xx with a usable array, and the fixed
\* outline was returned for a request of 100 pages
C4_Witness ==
  /\ TocValidated
  /\ req.num_pages = Some(DefaultPages)
  /\ Len(calls) = 1
  /\ calls[1].reply.kind = "array"
  /\ ~calls[1].reply.ok
  /\ resp.status = 200
  /\ IsFixedOutline(resp.body.toc)
  /\ resp.body.total_estimated_pages = <<"1", "0", "0">>

\* C5 as claimed: on the upstream path the low estimates of the sections sum
\* to num_pages, for every num_pages >= 1 and every N >= 1.
C5_SumIsNumPages ==
  (TocFromUpstream /\ req.num_pages[1] >= 1)
    => (resp.status = 200 /\ SumLow(resp.body.toc) = req.num_pages[1])

\* C5 as amended: the low estimates sum to num_pages when num_pages >= N;
\* when 1 <= num_pages < N every section is reported with a low estimate of
\* 1 (a share of 0 pages is written "1-2"), and the sum is N.
C5_SumOfLowEstimates ==
  (TocFromUpstream /\ req.num_pages[1] >= 1)
    => /\ resp.status = 200
       /\ Len(resp.body.toc) = Len(calls[1].reply.items)
       /\ SumLow(resp.body.toc) =
            IF req.num_pages[1] >= Len(resp.body.toc)
            THEN req.num_pages[1]
            ELSE Len(resp.body.toc)

\* 100 pages over 5 sections: each section is "20-22"; and 7 pages over 5
\* sections is reached as well
C5_Witness ==
  /\ TocFromUpstream
  /\ req.num_pages = Some(DefaultPages)
  /\ Len(resp.body.toc) = 5
  /\ \A i \in 1..5 : resp.body.toc[i].estimated_pages = <<"2", "0", "-", "2", "2">>

(***************************************************************************)
(* Properties of the chapter-content handler.                              *)
(***************************************************************************)
\* the number of whitespace-delimited tokens of a text: its maximal runs of
\* characters that are not whitespace
TokenCount(s) ==
  Cardinality({i \in 1..Len(s) :
                 /\ s[i] \notin {" ", "\n"}
                 /\ (i = 1 \/ s[i - 1] \in {" ", "\n"})})

\* a POST to the chapter-content handler whose required fields are present
ContentValidated ==
  /\ req.handler = "content"
  /\ req.method = "POST"
  /\ req.parses
  /\ ~AbsentOrEmpty(req.title)
  /\ ~AbsentOrEmpty(req.author)
  /\ ~AbsentOrEmpty(req.book_idea)
  /\ req.toc # Undefined

ContentOk == req.handler = "content" /\ resp.status = 200 /\ resp.body.kind = "chapter"

\* C2 as claimed: chapter_number = 0 or chapter_number > toc.length is
\* answered 400 with a message naming the range 1..toc.length, and no chapter
\* content is generated.
C2_OutOfRangeIs400 ==
  (ContentValidated /\ req.chapter_number # Undefined
     /\ (req.chapter_number[1] = 0 \/ req.chapter_number[1] > Len(req.toc[1])))
    => /\ resp.status = 400
       /\ resp.body.kind = "error"
       /\ resp.body.error = "Invalid chapter number. Must be between 1 and ${toc.length}"
       /\ IsNumeral(resp.body.toc_length, Len(req.toc[1]))
       /\ calls = <<>>

\* C3 as claimed: in every 200 response word_count is the number of
\* whitespace-delimited tokens of content and estimated_pages is
\* ceil(word_count / 300).
C3_WordCountIsTokenCount ==
  ContentOk
    => /\ resp.body.word_count = TokenCount(resp.body.content)
       /\ resp.body.estimated_pages * 300 >= resp.body.word_count
       /\ (resp.body.estimated_pages - 1) * 300 < resp.body.word_count

\* the text the upstream offers for the chapter, <<>> when it offers none
UpstreamOffer ==
  IF /\ Len(calls) = 1
     /\ calls[1].reply.kind = "object"
     /\ calls[1].reply.ok
     /\ calls[1].reply.generated_chapters # Undefined
     /\ Len(calls[1].reply.generated_chapters[1]) >= 1
  THEN LET c == calls[1].reply.generated_chapters[1][1]
       IN  IF ~AbsentOrEmpty(c.content) THEN c.content
           ELSE IF ~AbsentOrEmpty(c.chapter_content) THEN c.chapter_content
           ELSE <<>>
  ELSE <<>>

\* C10: a chapter-content request with the required fields and a
\* chapter_number within 1..toc.length is answered 200 with content for that
\* chapter: the upstream text when the credential is set and the call yields
\* a non-empty text, the locally synthesized text otherwise, and no upstream
\* call at all without a credential.
C10_AlwaysContent ==
  (ContentValidated /\ req.chapter_number # Undefined
     /\ req.chapter_number[1] >= 1 /\ req.chapter_number[1] <= Len(req.toc[1]))
    => /\ resp.status = 200
       /\ resp.body.kind = "chapter"
       /\ resp.body.chapter_number = req.chapter_number[1]
       /\ AbsentOrEmpty(env.hal9Token) => calls = <<>>
       /\ ~AbsentOrEmpty(env.hal9Token) => Len(calls) = 1
       /\ IF UpstreamOffer # <<>>
          THEN resp.body.content = UpstreamOffer[1]
          ELSE /\ resp.body.content =
                    generateContentByDepth(req.toc[1][req.chapter_number[1]],
                      IF req.content_depth = <<>> THEN "draft" ELSE req.content_depth[1],
                      req.book_idea[1], req.title[1])
               /\ resp.body.chapter_title =
                    req.toc[1][req.chapter_number[1]].section_name

\* the upstream answered 2xx without any generated chapter, and the second
\* chapter of the outline was synthesized locally
C10_Witness ==
  /\ ContentValidated
  /\ req.chapter_number = Some(2)
  /\ Len(calls) = 1
  /\ calls[1].reply.ok
  /\ calls[1].reply.generated_chapters = Some(<<>>)
  /\ resp.status = 200
  /\ resp.body.chapter_number = 2
  /\ resp.body.chapter_title = req.toc[1][2].section_name
  /\ resp.body.word_count > 300

(***************************************************************************)
(* Properties of the admin handler and of the submissions table.           *)
(***************************************************************************)
FourStatuses == {"pending", "in_progress", "completed", "cancelled"}

\* the Authorization header is exactly 'Bearer <key>' for a configured key
HeaderIsBearerKey ==
  /\ ~AbsentOrEmpty(env.adminKey)
  /\ req.authorization # <<>>
  /\ req.authorization[1] = <<"B", "e", "a", "r", "e", "r", " ">> \o env.adminKey[1]

\* C6: a GET or PUT to the admin handler whose Authorization header is not
\* exactly 'Bearer <configured admin key>' (every request, when no key is
\* configured) is answered 401 without submission data, and no database
\* statement is issued for it.
C6_UnauthorizedIs401 ==
  (req.handler = "admin" /\ req.method \in {"GET", "PUT"} /\ ~HeaderIsBearerKey)
    => /\ resp.status = 401
       /\ resp.body = [kind |-> "error", error |-> "Unauthorized"]
       /\ dbOps = <<>>

\* a PUT that carries the bare key without 'Bearer ' meets a stored
\* submission and is refused
C6_Witness ==
  /\ req.handler = "admin"
  /\ req.method = "PUT"
  /\ env.adminKey = Some(AdminKey)
  /\ req.authorization = Some(AdminKey)
  /\ Len(submissions) >= 1
  /\ submissions[1].status # Some("completed")
  /\ resp.status = 401
  /\ dbOps = <<>>

\* C7 as claimed: the status of every stored submission is one of the four
\* labels.
C7_StatusIsOneOfFour ==
  \A i \in 1..Len(submissions) :
    /\ submissions[i].status # <<>>
    /\ submissions[i].status[1] \in FourStatuses

\* an authorized PUT with an id and one of the four labels as status
AuthorizedStatusPut(r) ==
  /\ r.handler = "admin"
  /\ r.method = "PUT"
  /\ ~AbsentOrEmpty(env.adminKey)
  /\ r.authorization = Some(<<"B", "e", "a", "r", "e", "r", " ">> \o env.adminKey[1])
  /\ r.parses
  /\ r.id # <<>>
  /\ r.status # <<>>
  /\ r.status[1] \in FourStatuses

\* C8: whatever the current status of a stored submission (NULL included),
\* an authorized admin update to any of the four labels is answered 200,
\* stores that label and sets updated_at to the database time of the update;
\* nothing else of the row changes.
C8_AnyTransition ==
  [][(AuthorizedStatusPut(req') /\ req'.id[1] \in 1..Len(submissions))
       => /\ resp'.status = 200
          /\ submissions'[req'.id[1]] =
               [submissions[req'.id[1]] EXCEPT
                  !.status = req'.status, !.updated_at = now']
          /\ resp'.body.submission = submissions'[req'.id[1]]]_vars

\* a completed submission inserted at time 0 was set back to pending at
\* time 1
C8_Witness ==
  /\ AuthorizedStatusPut(req)
  /\ req.status = Some("pending")
  /\ resp.status = 200
  /\ resp.body.submission.status = Some("pending")
  /\ submissions[req.id[1]].status = Some("pending")
  /\ submissions[req.id[1]].updated_at = 1
  /\ now = 1

\* row i exists before and after the step and differs
RowChanged(i) ==
  /\ i \in 1..Len(submissions)
  /\ i \in 1..Len(submissions')
  /\ submissions'[i] # submissions[i]

\* the step is a status update by the admin handler on row i
AdminStatusUpdate(i) ==
  /\ req'.handler = "admin"
  /\ req'.method = "PUT"
  /\ resp'.status = 200
  /\ req'.id = Some(i)
  /\ submissions'[i] =
       [submissions[i] EXCEPT !.status = submissions'[i].status,
                              !.updated_at = submissions'[i].updated_at]

\* C9 as claimed: a stored submission is changed only by a status update of
\* the admin handler.
C9_OnlyAdminChanges ==
  [][\A i \in 1..MaxSubs + 1 : RowChanged(i) => AdminStatusUpdate(i)]_vars

\* C9 as amended: a stored submission is changed only by a status update of
\* the admin handler or by an UPDATE of the signed-in user it belongs to
\* (who cannot pass it to another user); no other signed-in user changes it.
C9_OnlyAdminOrOwnerChanges ==
  [][\A i \in 1..MaxSubs + 1 :
       RowChanged(i)
         => \/ AdminStatusUpdate(i)
            \/ /\ req'.handler = "client"
               /\ req'.op = "update"
               /\ req'.id = i
               /\ submissions[i].user_id = Some(req'.uid)
               /\ submissions'[i].user_id = submissions[i].user_id
               /\ submissions'[i].id = submissions[i].id]_vars

\* the owner changed the topic of their own submission, and another user's
\* update of a row is reached as well (it selects no row)
C9_Witness ==
  /\ req.handler = "client"
  /\ req.op = "update"
  /\ req.id \in 1..Len(submissions)
  /\ submissions[req.id].user_id = Some(req.uid)
  /\ req.book_topic = Given(Some("t2"))
  /\ submissions[req.id].book_topic = Some("t2")
  /\ submissions[req.id].updated_at = 1

(***************************************************************************)
(* Properties of the cover handler.                                        *)
(***************************************************************************)
CoverPost == req.handler = "cover" /\ req.method = "POST"

\* C14: a POST to the cover handler while the upstream credential is absent
\* (unset or empty) is answered 500, whether or not the body parses or has
\* its required fields, with no upstream call and no cover in the response.
C14_NoCredentialIs500 ==
  (CoverPost /\ AbsentOrEmpty(env.hal9Token))
    => /\ resp.status = 500
       /\ resp.body.kind = "error"
       /\ calls = <<>>

\* a body without title, sent while no credential is set, got 500
C14_Witness ==
  /\ CoverPost
  /\ env.hal9Token = Undefined
  /\ req.parses
  /\ req.title = Undefined
  /\ req.author = Some(<<"A">>)
  /\ resp.status = 500
  /\ calls = <<>>

\* the cover request passed the credential check and the validation
CoverValidated ==
  /\ CoverPost
  /\ ~AbsentOrEmpty(env.hal9Token)
  /\ req.parses
  /\ ~AbsentOrEmpty(req.title)
  /\ ~AbsentOrEmpty(req.author)
  /\ ~AbsentOrEmpty(req.book_description)

\* the upstream call threw, was answered non-2xx, or brought no cover URL
CoverUpstreamUnusable ==
  /\ Len(calls) = 1
  /\ \/ calls[1].reply.kind # "object"
     \/ ~calls[1].reply.ok
     \/ /\ AbsentOrEmpty(calls[1].reply.cover_url)
        /\ AbsentOrEmpty(calls[1].reply.image_url)

\* the five colours of the requested scheme, the professional ones for a
\* scheme that is none of the five
PaletteOfScheme(color_scheme) ==
  IF color_scheme = Some(S_vibrant) THEN palettes.vibrant
  ELSE IF color_scheme = Some(S_monochrome) THEN palettes.monochrome
  ELSE IF color_scheme = Some(S_warm) THEN palettes.warm
  ELSE IF color_scheme = Some(S_cool) THEN palettes.cool
  ELSE palettes.professional

IsDataUrl(url) ==
  /\ Len(url) > Len(DataUrlPrefix)
  /\ SubSeq(url, 1, Len(DataUrlPrefix)) = DataUrlPrefix

\* C15 as claimed: a validated cover request is always answered 200, and
\* when the upstream is unusable the response carries a placeholder data URL
\* and the five colours of the requested scheme.
C15_AlwaysCover ==
  CoverValidated
    => /\ resp.status = 200
       /\ resp.body.kind = "cover"
       /\ CoverUpstreamUnusable
            => /\ IsDataUrl(resp.body.cover_url)
               /\ resp.body.color_palette = Some(PaletteOfScheme(req.color_scheme))

(***************************************************************************)
(* Properties of the email handler.                                        *)
(***************************************************************************)
EmailPost == req.handler = "email" /\ req.method = "POST" /\ req.parses

\* C16 as claimed: a POST that carries a submission is answered 200 with a
\* result for each recipient; when the email credential is set exactly two
\* sends were made, the first to the admin address and the second to the
\* submitter, and without it none; a POST without a submission is answered
\* 400 and sends nothing.
C16_TwoSends ==
  /\ (EmailPost /\ req.submission # <<>>)
       => /\ resp.status = 200
          /\ resp.body.kind = "email"
          /\ IF AbsentOrEmpty(env.resendKey)
             THEN /\ calls = <<>>
                  /\ ~resp.body.adminEmail.success
                  /\ ~resp.body.customerEmail.success
             ELSE /\ Len(calls) = 2
                  /\ calls[1].call.body.to # req.submission[1].email
                  /\ calls[2].call.body.to = req.submission[1].email
                  /\ resp.body.adminEmail.success
                       = (calls[1].reply.kind = "json" /\ calls[1].reply.ok)
                  /\ resp.body.customerEmail.success
                       = (calls[2].reply.kind = "json" /\ calls[2].reply.ok)
  /\ (EmailPost /\ req.submission = <<>>)
       => resp.status = 400 /\ calls = <<>>

(***************************************************************************)
(* Properties of all the handlers.                                         *)
(***************************************************************************)
\* C11: an invocation of the outline, chapter-content or cover handler makes
\* at most one upstream call, also when that call fails and the local
\* fallback answers, and none when the credential is absent.
C11_AtMostOneCall ==
  req.handler \in {"toc", "content", "cover"}
    => /\ Len(calls) <= 1
       /\ AbsentOrEmpty(env.hal9Token) => calls = <<>>

\* the only fetch of a cover request threw and the placeholder answered
C11_Witness ==
  /\ req.handler = "cover"
  /\ Len(calls) = 1
  /\ calls[1].reply.kind = "throw"
  /\ resp.status = 200
  /\ IsDataUrl(resp.body.cover_url)

\* C20: every handler answers OPTIONS with 200 and no body, whatever the
\* secrets, the Authorization header and the body (the admin handler also
\* without a valid bearer token), and the outline, chapter-content, cover and
\* email handlers answer every method other than OPTIONS and POST with 405;
\* neither makes an upstream call or issues a database statement.
C20_OptionsAndOtherMethods ==
  /\ (req.handler # "none" /\ req.method = "OPTIONS")
       => resp = OptionsResponse /\ calls = <<>> /\ dbOps = <<>>
  /\ (req.handler \in {"toc", "content", "cover", "email"}
        /\ req.method \notin {"OPTIONS", "POST"})
       => resp.status = 405 /\ calls = <<>> /\ dbOps = <<>>

\* an OPTIONS request without Authorization header reached the admin handler
\* of a deployment whose admin key is set
C20_Witness ==
  /\ req.handler = "admin"
  /\ req.method = "OPTIONS"
  /\ req.authorization = <<>>
  /\ env.adminKey = Some(AdminKey)
  /\ resp = OptionsResponse

(***************************************************************************)
(* The shares of the sections of an upstream outline.                      *)
(***************************************************************************)
\* the high end of a page range "low-high"
HighEstimate(range) ==
  LET dash == CHOOSE i \in 1..Len(range) : range[i] = "-"
  IN  DecimalValue(SubSeq(range, dash + 1, Len(range)))

\* the range "low-high" in decimal numerals
IsRange(range, low, high) ==
  \E dash \in 1..Len(range) :
    /\ range[dash] = "-"
    /\ IsNumeral(SubSeq(range, 1, dash - 1), low)
    /\ IsNumeral(SubSeq(range, dash + 1, Len(range)), high)

\* the share a reported range stands for: "s-(s+2)" for a share s >= 1, and
\* "1-2" for the share 0
ShareOfRange(range) ==
  IF HighEstimate(range) - LowEstimate(range) = 2 THEN LowEstimate(range) ELSE 0

\* C19: on the upstream path with N >= 1 sections and num_pages P >= 0,
\* section i (from 0) is reported with the range s-(s+2) for its share
\* s = floor(P / N) + (1 if i < P mod N), and with 1-2 when s = 0; the shares
\* of two sections differ by at most one, and an earlier section never has
\* fewer pages than a later one.
C19_SharesOfPages ==
  TocFromUpstream
    => LET P == req.num_pages[1]
           N == Len(calls[1].reply.items)
           toc == resp.body.toc
       IN  /\ resp.status = 200
           /\ Len(toc) = N
           /\ \A i \in 0..(N - 1) :
                LET s == (P \div N) + (IF i < P % N THEN 1 ELSE 0)
                IN  IF s = 0 THEN IsRange(toc[i + 1].estimated_pages, 1, 2)
                    ELSE IsRange(toc[i + 1].estimated_pages, s, s + 2)
           /\ \A i, j \in 1..N :
                i < j => /\ ShareOfRange(toc[i].estimated_pages)
                              >= ShareOfRange(toc[j].estimated_pages)
                         /\ ShareOfRange(toc[i].estimated_pages)
                              - ShareOfRange(toc[j].estimated_pages) <= 1

\* 7 pages over 5 sections: the shares are 2, 2, 1, 1, 1
C19_Witness ==
  /\ TocFromUpstream
  /\ req.num_pages = Some(7)
  /\ Len(resp.body.toc) = 5
  /\ resp.body.toc[2].estimated_pages = <<"2", "-", "4">>
  /\ resp.body.toc[3].estimated_pages = <<"1", "-", "3">>

(***************************************************************************)
(* The insert trigger and the notification.                                *)
(***************************************************************************)
\* an INSERT of a signed-in user that the policy, the enum type and the
\* foreign key admit
AdmittedInsert ==
  /\ req # NoRequest
  /\ req.handler = "client"
  /\ req.op = "insert"
  /\ ~BadStatus(req.status)
  /\ OwnRow(req.uid, req.user_id)
  /\ req.user_id[1] \in users

\* C12: an insert that the table admits succeeds and its row is in the
\* table whether the trigger queued the notification or the dispatch
\* raised an error; an error of the dispatch leaves a warning and nothing
\* else
C12_InsertSurvivesDispatch ==
  AdmittedInsert =>
    /\ resp.body.ok
    /\ submissions # <<>>
    /\ submissions[Len(submissions)].user_id = req.user_id
    /\ submissions[Len(submissions)].book_topic = req.book_topic.value
    /\ Len(notices) = 1
    /\ notices[1].submission = submissions[Len(submissions)]
    /\ notices[1].kind = IF req.dispatch = "queued" THEN "http_post" ELSE "warning"

\* an admitted insert whose dispatch raised an error, with its row stored
C12_Witness ==
  /\ AdmittedInsert
  /\ req.dispatch = "error"
  /\ resp.body.ok
  /\ submissions # <<>>
  /\ notices[1].kind = "warning"

(***************************************************************************)
(* The life of a submission.                                               *)
(***************************************************************************)
\* C18: a row of the table is still in the table after every step, except
\* a row of a user whose account the step deletes
C18_RowsStay ==
  [][\A i \in 1..Len(submissions) :
        \/ HasRow(submissions', submissions[i].id)
        \/ /\ submissions[i].user_id # Null
           /\ submissions[i].user_id[1] \in users
           /\ submissions[i].user_id[1] \notin users']_vars

\* the owner of a row has tried to delete it and the row is there
C18_Witness ==
  /\ req # NoRequest
  /\ req.handler = "client"
  /\ req.op = "delete"
  /\ HasRow(submissions, req.id)
  /\ submissions[RowIndex(submissions, req.id)].user_id = Some(req.uid)

(***************************************************************************)
(* Row level security once the migrations are applied.                     *)
(***************************************************************************)
\* the rows of the table whose user_id is uid
OwnSubmissions(uid) == SelectSeq(submissions, LAMBDA r : r.user_id = Some(uid))

\* the statement of a signed-in user that the step runs, on the schema of
\* all the migrations
StatementOnFinalSchema(op) ==
  /\ schema.applied = NumMigrations
  /\ req' # NoRequest
  /\ req'.handler = "client"
  /\ req'.op = op

\* C17: with every migration applied in the order of the timestamps, a
\* signed-in user reads exactly the submissions whose user_id is their id
\* and, of the users table, their own row; an insert is accepted exactly
\* when its user_id is the user's id; an update changes the row exactly
\* when its user_id is the user's id.  A submission that carries the user's
\* email under another user_id is not read, and no other user's row is
C17_OwnRowsOnly ==
  [][/\ StatementOnFinalSchema("select") =>
          resp'.body.rows = OwnSubmissions(req'.uid)
     /\ StatementOnFinalSchema("select users") =>
          resp'.body.rows = {req'.uid} \cap users
     /\ StatementOnFinalSchema("insert") =>
          /\ resp'.body.ok <=> req'.user_id = Some(req'.uid)
          /\ IF resp'.body.ok
             THEN /\ Len(submissions') = Len(submissions) + 1
                  /\ submissions'[Len(submissions')].user_id = Some(req'.uid)
             ELSE submissions' = submissions
     /\ StatementOnFinalSchema("update") =>
          \A i \in 1..Len(submissions) :
            IF submissions[i].id = req'.id
                 /\ submissions[i].user_id = Some(req'.uid)
            THEN /\ submissions'[i].book_topic = req'.book_topic.value
                 /\ submissions'[i].user_id = submissions[i].user_id
            ELSE submissions'[i] = submissions[i]]_vars

\* every migration is applied, a submission carries the email of the user
\* who reads but another user_id, and the user has not been given it
C17_Witness ==
  /\ schema.applied = NumMigrations
  /\ req # NoRequest
  /\ req.handler = "client"
  /\ req.op = "select"
  /\ \E i \in 1..Len(submissions) :
       /\ submissions[i].email = EmailOf(req.uid)
       /\ submissions[i].user_id # Some(req.uid)
  /\ resp.body.rows = OwnSubmissions(req.uid)

(***************************************************************************)
(* The chapters generated at once.                                         *)
(***************************************************************************)
NoCallInFlight(w) == \A n \in 1..MaxToc : w.pending[n] = 0

OutlineAnswered ==
  /\ req # NoRequest
  /\ req.handler = "toc"
  /\ resp.status = 200
  /\ resp.body.kind = "toc"

\* the upstream array the outline of the response was converted from: the
\* fetch answered 2xx with an array and the conversion did not throw
UpstreamOutlineUsed ==
  /\ calls # <<>>
  /\ calls[1].reply.kind = "array"
  /\ calls[1].reply.ok
  /\ \A i \in 1..Len(calls[1].reply.items) : ~calls[1].reply.items[i].null

\* C28: every 200 response of the outline handler has at least one section
\* (an empty upstream array being replaced by the three-section fallback).
C28_AtLeastOneSection ==
  OutlineAnswered => Len(resp.body.toc) >= 1

\* the other values of chapter_count and target_length a request can carry
RequestVariants(request) ==
  {[request EXCEPT !.chapter_count = cc, !.target_length = tl] :
     cc \in {Undefined, Some(3)}, tl \in {Undefined, Some(<<"l">>)}}

\* the response of the outline handler to `request` when the upstream
\* behaves as it did for the request being served
OutlineResponseTo(request) ==
  IF calls = <<>> THEN TocResponse(generateLocalTOC(request))
  ELSE TocResponse(generateTOCAfterFetch(request, calls[1].reply))

AuthorizedPutServed ==
  /\ req = NoRequest
  /\ req' # NoRequest
  /\ req'.handler = "admin"
  /\ req'.method = "PUT"
  /\ req'.parses
  /\ ~AdminUnauthorized(req'.authorization, env.adminKey)

C21_ChaptersOfOutline ==
  \A n \in DOMAIN wizard.chapters : n \in 1..wizard.toc

\* the step resolves an outline request
OutlineResolved == Len(wizard'.tocCalls) < Len(wizard.tocCalls)

\* the step resolves an outline request with an outline
OutlineSucceeded == OutlineResolved /\ wizard'.error # TocError

\* the step resolves an outline request without an outline
OutlineFailed == OutlineResolved /\ wizard'.error = TocError

\* the step is a generateTOC that the required fields stop
OutlineRejected == wizard'.error = FieldsError /\ wizard.error # FieldsError

\* C22: the wizard leaves step 1 only by an outline request that succeeds;
\* a generateTOC that is rejected for missing fields or whose request fails
\* leaves the step as it is and sets an error; a request that succeeds sets
\* the step to one more than the step it was started on, wherever the user
\* has gone in the meantime.
C22_StepAfterOutline ==
  [][/\ (wizard.currentStep = 1 /\ wizard'.currentStep # 1) => OutlineSucceeded
     /\ (OutlineFailed \/ OutlineRejected) =>
          /\ wizard'.currentStep = wizard.currentStep
          /\ wizard'.error # NoError
     /\ OutlineSucceeded =>
          wizard'.currentStep = wizard.tocCalls[1].currentStep + 1]_vars

\* 'Regenerate All' was clicked on step 2 and the user went back to step 1
\* while the request is in flight
C22_Witness ==
  /\ wizard.tocCalls = <<[currentStep |-> 2]>>
  /\ wizard.currentStep = 1
  /\ wizard.tocData

\* C23: whenever the step is 2 or higher, tocData and generatedContent are
\* set, and neither goes back to null.
C23_OutlineOnceSet ==
  [][/\ wizard'.currentStep >= 2 => wizard'.tocData /\ wizard'.generatedContent
     /\ wizard.tocData => wizard'.tocData
     /\ wizard.generatedContent => wizard'.generatedContent]_vars

\* on the last step, with chapters stored, after a regeneration that failed
C23_Witness ==
  /\ wizard.currentStep = totalSteps
  /\ wizard.tocData
  /\ wizard.generatedContent
  /\ wizard.error = TocError
  /\ DOMAIN wizard.chapters # {}

\* C24: the step starts at 1 and is always one of 1..5; 'next' on step 5
\* and 'previous' on step 1 change nothing; a navigation by the user (a
\* change of the step that is not the end of an outline request) moves by
\* exactly one.
C24_StepsOneToFive ==
  /\ wizard.currentStep = 1
  /\ [][/\ wizard'.currentStep \in 1..totalSteps
        /\ wizard'.currentStep = totalSteps =>
             nextStep(wizard', wizard'.currentStep) = wizard'
        /\ wizard'.currentStep = 1 =>
             previousStep(wizard', wizard'.currentStep) = wizard'
        /\ (wizard'.currentStep # wizard.currentStep /\ ~OutlineResolved) =>
             \/ wizard'.currentStep = wizard.currentStep + 1
             \/ wizard'.currentStep = wizard.currentStep - 1]_vars

\* on step 5, where 'Complete' calls nextStep
C24_Witness ==
  /\ wizard.currentStep = totalSteps
  /\ ~wizard.isGenerating
  /\ wizard.tocCalls = <<>>

\* C25: at most one outline request is in flight; isGenerating is TRUE
\* exactly while one is; a request is started only while isGenerating is
\* FALSE.
C25_OneOutlineRequest ==
  [][/\ Len(wizard'.tocCalls) <= 1
     /\ wizard'.isGenerating <=> wizard'.tocCalls # <<>>
     /\ Len(wizard'.tocCalls) > Len(wizard.tocCalls) => ~wizard.isGenerating]_vars

\* a regeneration is in flight on step 2
C25_Witness ==
  /\ wizard.isGenerating
  /\ wizard.currentStep = 2
  /\ wizard.tocCalls = <<[currentStep |-> 2]>>
  /\ wizard.tocData

\* C26: when no generateContent call is in flight, generatingChapters is
\* empty; a call that ends, in whatever way, takes its number out of the
\* set; a call that starts has its number in the set.
C26_NoChapterLeftGenerating ==
  [][/\ NoCallInFlight(wizard') => wizard'.generatingChapters = {}
     /\ \A n \in 1..MaxToc :
          /\ wizard'.pending[n] > wizard.pending[n] =>
               n \in wizard'.generatingChapters
          /\ wizard'.pending[n] < wizard.pending[n] =>
               n \notin wizard'.generatingChapters]_vars

\* the call for chapter 2 has failed and no call is in flight
C26_Witness ==
  /\ NoCallInFlight(wizard)
  /\ wizard.error = ChapterError(2)
  /\ wizard.toc >= 2
  /\ 2 \notin DOMAIN wizard.chapters
  /\ 1 \in DOMAIN wizard.chapters
  /\ wizard.generatingChapters = {}

\* C27: a PDF request is sent only with an outline and at least one stored
\* chapter, and carries exactly the stored chapters; generateBookPDF with
\* an outline and no stored chapter sends nothing and sets an error; pdfUrl
\* is set only in a step that resolves a PDF request.
C27_PdfOfStoredChapters ==
  [][/\ Len(wizard'.pdfCalls) > Len(wizard.pdfCalls) =>
          /\ wizard.tocData
          /\ wizard.generatedContent
          /\ DOMAIN wizard.chapters # {}
          /\ wizard'.pdfCalls[Len(wizard'.pdfCalls)].chapters = wizard.chapters
     /\ (wizard'.tocData /\ wizard'.generatedContent
           /\ DOMAIN wizard'.chapters = {}) =>
          StartPDF(wizard') = [wizard' EXCEPT !.error = NoChaptersError]
     /\ (wizard'.pdfUrl /\ ~wizard.pdfUrl) =>
          /\ Len(wizard'.pdfCalls) < Len(wizard.pdfCalls)
          /\ wizard'.error = wizard.error]_vars

\* a PDF made of chapter 1 is there and a request with the chapters 1 and 3
\* of a three-section outline is in flight
C27_Witness ==
  /\ wizard.pdfUrl
  /\ wizard.toc = 3
  /\ wizard.pdfCalls # <<>>
  /\ DOMAIN wizard.pdfCalls[1].chapters = {1, 3}
  /\ DOMAIN wizard.chapters = {1, 3}

====
